---- MODULE Spec2Model ----
(***************************************************************************)
(* State-machine model of the crawlerWhipAI engine: the breadth-first link *)
(* mapper, the dispatchers, the per-domain rate limiter, the SQLite cache  *)
(* and the fetch pipeline (arun, arun_many).  Every subsystem has its own  *)
(* specifications (SpecMapper; SpecDispatch, SpecRetry; SpecLimiter,       *)
(* SpecPacing, SpecOrigins; SpecCache, SpecRemoval, SpecSweep; SpecFetch,  *)
(* SpecKeys, SpecTiers, SpecNavigation, SpecMany, SpecNeeds; SpecLight for *)
(* the lightweight mapper; SpecBrowser for the browser manager; SpecUrl    *)
(* for the url utilities; SpecDiff for the change detector) over one set   *)
(* of variables; the subsystems a specification does not exercise stay in  *)
(* their constructed state.                                                *)
(***************************************************************************)
EXTENDS Integers, Sequences, FiniteSets, TLC

VARIABLES
    \* ---- LinkMapper (discovery/link_mapper.py)
    mcfg,            \* constructor arguments and the crawler config of the run
    start_url,       \* the seed handed to map_links
    mphase,          \* "new" | "loop" | "wave" | "done"
    nodes,           \* the LinkNode objects, in creation order (1 = root)
    visited,         \* the visited set of map_links
    current_depth,   \* loop variable of map_links
    wave,            \* current_depth_nodes: indices into nodes
    pages_crawled,   \* self.pages_crawled
    fetches,         \* number of crawler.arun calls issued by the run
    skips,           \* which kinds of link the run has skipped as visited so far
    \* ---- LightweightLinkMapper (discovery/lightweight_mapper.py)
    light,           \* the mapper and its map_links call: constructor arguments,
                     \* start_url, self.start_host, position of the call, the
                     \* LinkNode objects in creation order (1 = root), visited,
                     \* current_depth, current_depth_nodes, self.pages_crawled,
                     \* self._js_required_urls, the urls _browser_fallback has
                     \* still to fetch, and whether the tree came from the sitemap
    \* ---- BrowserManager (browser/manager.py) and the pages of arun
    bm,              \* self._browser is a browser, self._context (0 = None)
    contexts,        \* the browser contexts that exist in the browser
    pages,           \* the pages created so far, in creation order: context, open
    btask,           \* per task calling arun: where its browser tier stands, the
                     \* page it was given (0 = none) and how _crawl_page ended
    bruns,           \* number of arun calls that reached the browser tier
    \* ---- RateLimiter (dispatch/rate_limiter.py)
    lcfg,            \* base_delay_min, max_delay, max_retries
    domain_delays,   \* self.domain_delays (dict)
    last_request,    \* self.last_request (dict)
    failure_counts,  \* self.failure_counts (dict)
    now,             \* time.time(), in units of 1/Scale second
    sleepers,        \* the tasks suspended in wait(): task -> [domain, wake, delay]
    returns,         \* per domain, the last return of wait(): the delay at its call,
                     \* the time elapsed since the return before it and the delay at
                     \* the call of that one
    rl_run,          \* per domain, the last two values of the current delay over the
                     \* current run of consecutive on_rate_limited calls, from the
                     \* value before the first call of the run on
    ops,             \* number of on_success / on_rate_limited / reset_domain calls so far
    \* ---- dispatchers (dispatch/dispatcher.py)
    dcfg,            \* class of the dispatcher and its semaphore_count / base_concurrency
    current_concurrency, \* MemoryAdaptiveDispatcher.current_concurrency
    dphase,          \* "idle" | "running" | "returned" | "raised"
    dcall,           \* the dispatch call in progress: method and the domain of each task
    tstate,          \* per task: "new" | "sleeping" | "queued" | "running" | "done"
    sem,             \* free permits of the semaphore of the call
    waiters,         \* tasks suspended in semaphore.acquire, first come first
    slots,           \* per task, what gather holds for it once the task is over
    completion,      \* the tasks of the call in the order they finished
    returned,        \* the list the dispatch call returned
    dispatches,      \* number of dispatch calls made on the dispatcher
    \* ---- CacheStorage (cache/storage.py)
    db_open,         \* self.db is a connection
    table,           \* the rows of table cache, by url
    utcnow,          \* datetime.utcnow(), in hours
    cpc,             \* per task using the cache: the call it is suspended in and the
                     \* locals of that call
    fresh,           \* per url, the arguments and time of the last set, unless a
                     \* delete or clear touched the url since
    got,             \* the get that has just returned, if the last step was one: url,
                     \* time of return, row read, the set it came after undisturbed
                     \* (from fresh), the value returned, and whether the url had a
                     \* row when it returned
    calls,           \* number of get / set / delete / clear / cleanup_expired calls
    \* ---- utils/url.py and cache/diffing.py
    ucall,           \* a url and a base domain, the results of normalize_url
                     \* applied to the url and then to its own results, and
                     \* is_internal_url of the url and of its normal form; in
                     \* SpecNeeds, an html text and _needs_browser of it
    differ,          \* a ContentChangeDetector, the two contents handed to
                     \* detect_changes and the ContentDiff it returned
    removal,         \* per url, whether delete or clear removed it on the open
                     \* cache with no set of it since, and how its row was then
                     \* ("live", "expired", "none"); the removal made by the last
                     \* step, if it was one; per task in a get, whether the url
                     \* was removed when the get began; the get that has just
                     \* returned, if the last step was one; in SpecSweep, the
                     \* table and the hour at the SELECT of the last
                     \* cleanup_expired and the value it has just returned
    \* ---- AsyncWebCrawler (core/crawler.py)
    crawler,         \* self.crawler_config, whether self.cache is a CacheStorage,
                     \* self._initialized
    fcall,           \* the arun call in progress or just over: its phase, url and
                     \* effective config, the cache.get and cache.set calls it made,
                     \* the tiers it touched, the content of the live record of its
                     \* url when it was called, and its result
    aruns,           \* number of arun calls made
    tiers,           \* what the network tiers answered the arun call of fcall: the
                     \* GET of _http_fetch, the HEAD probe, the browser page, the
                     \* undetected browser (None = not asked)
    many             \* the arun_many call in progress or just over: its phase
                     \* ("idle" | "running" | "returned" | "raised"), its urls, the
                     \* free permits of its semaphore, per sem_run its state ("new" |
                     \* "queued" | "running" | "done") and how its arun ended, the
                     \* sem_run whose arun is the call of fcall, and the list returned

mapperVars == <<mcfg, start_url, mphase, nodes, visited, current_depth, wave,
                pages_crawled, fetches, skips>>

limiterVars == <<lcfg, domain_delays, last_request, failure_counts, now, sleepers,
                 returns, rl_run, ops>>

dispatchVars == <<dcfg, current_concurrency, dphase, dcall, tstate, sem, waiters,
                  slots, completion, returned, dispatches>>

cacheVars == <<db_open, table, utcnow, cpc, fresh, got, calls>>

fetchVars == <<crawler, fcall, aruns, tiers, many>>

lightVars == <<light>>

browserVars == <<bm, contexts, pages, btask, bruns>>

removalVars == <<removal>>

utilVars == <<ucall, differ>>

vars == <<mapperVars, lightVars, browserVars, limiterVars, dispatchVars, cacheVars,
          removalVars, utilVars, fetchVars>>

\* what the actions of one subsystem leave alone
notMapper ==
    <<lightVars, browserVars, limiterVars, dispatchVars, cacheVars, fetchVars, removalVars, utilVars>>
notLight ==
    <<mapperVars, browserVars, limiterVars, dispatchVars, cacheVars, fetchVars, removalVars, utilVars>>
notBrowser ==
    <<mapperVars, lightVars, limiterVars, dispatchVars, cacheVars, fetchVars, removalVars, utilVars>>
notLimiter ==
    <<mapperVars, lightVars, browserVars, dispatchVars, cacheVars, fetchVars, removalVars, utilVars>>
notDispatch ==
    <<mapperVars, lightVars, browserVars, cacheVars, fetchVars, removalVars, utilVars>>
notCache ==
    <<mapperVars, lightVars, browserVars, limiterVars, dispatchVars, fetchVars, utilVars>>
notUtil ==
    <<mapperVars, lightVars, browserVars, limiterVars, dispatchVars, cacheVars, removalVars,
      fetchVars>>
notFetch ==
    <<mapperVars, lightVars, browserVars, limiterVars, dispatchVars, removalVars, utilVars>>

(***************************************************************************)
(* Bounds of the model.                                                    *)
(***************************************************************************)
MaxDepth == 2        \* max_depth ranges over 0..MaxDepth
MaxPages == 4        \* max_pages ranges over 0..MaxPages
MaxConcurrent == 2   \* max_concurrent is 1 or MaxConcurrent
MaxLinks == 2        \* anchors on one fetched page
MaxOps == 2          \* on_success / on_rate_limited / reset_domain calls in one behaviour
MaxCallers == 2      \* tasks calling the rate limiter
MaxClock == 2        \* seconds the clock may run past its start
MaxTasks == 2        \* tasks handed to one dispatch call
MaxSemaphore == 2    \* semaphore_count / base_concurrency range over 1..MaxSemaphore
MaxDispatches == 1   \* dispatch calls on one dispatcher
MaxTtl == 1          \* ttl_hours ranges over 0..MaxTtl
MaxHours == 2        \* hours the cache clock may run
MaxCalls == 3        \* calls of the cache in one behaviour
MaxFetches == 1      \* arun calls in one behaviour
MaxKeyFetches == 2   \* arun calls in one behaviour of a run of several
MaxManyUrls == 2     \* urls handed to one arun_many call
MaxBrowserTasks == 2 \* tasks whose arun calls use the browser
MaxBrowserRuns == 3  \* arun calls that reach the browser tier in one behaviour
MaxNormalizations == 2 \* applications of normalize_url to a url and its results
MaxContentLen == 4   \* pieces of a content handed to detect_changes

(***************************************************************************)
(* Generic helpers.                                                        *)
(***************************************************************************)
SeqsUpTo(n, S) == UNION {[1..k -> S] : k \in 0..n}

Range(s) == {s[i] : i \in 1..Len(s)}

\* a history that keeps its last entry and the new one
LastTwo(s, x) == IF s = <<>> THEN <<x>> ELSE <<s[Len(s)], x>>

Min2(a, b) == IF a <= b THEN a ELSE b

Max2(a, b) == IF a >= b THEN a ELSE b

(***************************************************************************)
(* URLs.  A URL string is modelled by its parsed parts; the empty string   *)
(* is EmptyUrl.  Letter case is modelled on the scheme and the host, the   *)
(* only parts normalize_url lowercases.                                    *)
(***************************************************************************)
Url(scheme, host, path, frag) ==
    [scheme |-> scheme, host |-> host, path |-> path, frag |-> frag]

EmptyUrl == Url("", "", "", "")

\* str.lower() on the scheme and host names the model uses
Lower(s) ==
    CASE s = "HTTPS" -> "https"
      [] s = "A.test" -> "a.test"
      [] OTHER -> s

\* utils/url.py normalize_url (no base_url): empty stays empty, a missing
\* scheme becomes https, the fragment is removed (kept when the caller asks
\* for preserve_fragment), scheme and netloc are lowercased.
NormalizeUrl(u, preserve_fragment) ==
    IF u = EmptyUrl THEN EmptyUrl
    ELSE [u EXCEPT !.scheme = IF u.scheme = "" THEN "https" ELSE Lower(u.scheme),
                   !.host = Lower(u.host),
                   !.frag = IF preserve_fragment THEN u.frag ELSE ""]

\* utils/url.py get_base_domain: lowercased netloc without "www." and port,
\* reduced to its last two labels.
GetBaseDomain(u) ==
    CASE Lower(u.host) = "docs.a.test" -> "a.test"
      [] OTHER -> Lower(u.host)

\* utils/url.py is_internal_url
IsInternalUrl(u, base_domain) == GetBaseDomain(u) = base_domain

\* full_host of the specification: the exact host[:port] of the URL
GetFullHost(u) == Lower(u.host)

Seed == Url("https", "a.test", "/", "")

\* the seeds map_links is started from: canonical, and with an upper-case host
Seeds == {Seed, Url("https", "A.test", "/", "")}

\* the href values a fetched page's anchors are drawn from
Hrefs ==
    { Url("https", "a.test", "/", "top"),
      Url("HTTPS", "A.test", "/p", "x"),
      Url("https", "docs.a.test", "/p", ""),
      Url("https", "b.test", "/p", "") }

\* the anchor lists a fetched page may carry, in DOM order
PageHrefs == SeqsUpTo(MaxLinks, Hrefs)

(***************************************************************************)
(* LinkMapper.                                                             *)
(***************************************************************************)
NoParent == 0

\* a constructor that puts every node at the depth of the root
LinkNodeAtRootDepth(url, depth, parent_url, parent, is_internal) ==
    [url |-> url, depth |-> 0, parent_url |-> parent_url, parent |-> parent,
     is_internal |-> is_internal, children |-> <<>>, st |-> "new"]

LinkNode(url, depth, parent_url, parent, is_internal) ==
    [url |-> url, depth |-> depth, parent_url |-> parent_url, parent |-> parent,
     is_internal |-> is_internal, children |-> <<>>, st |-> "new"]

\* core/crawler.py _extract_links: every anchor with a non-empty href is
\* normalized and filed under internal or external by the page's base domain.
RECURSIVE ExtractLinks(_, _, _)
ExtractLinks(hrefs, page_url, kind) ==
    IF hrefs = <<>> THEN <<>>
    ELSE LET href == Head(hrefs)
             normalized == NormalizeUrl(href, FALSE)
             rest == ExtractLinks(Tail(hrefs), page_url, kind)
         IN  IF href = EmptyUrl THEN rest
             ELSE IF IsInternalUrl(normalized, GetBaseDomain(page_url)) = (kind = "internal")
                  THEN <<normalized>> \o rest
                  ELSE rest

\* link_mapper.py _discover_child_links, lines 189-191
LinksToProcess(internal, external, include_external) ==
    IF include_external THEN internal \o external ELSE internal

\* DiscoverLoop without the capacity test of lines 205-207
RECURSIVE DiscoverLoopNoCapacity(_, _, _, _)
DiscoverLoopNoCapacity(links, acc, parent, cfg) ==
    IF links = <<>> THEN acc
    ELSE LET link_url == Head(links)
             normalized_url == NormalizeUrl(link_url, cfg.preserve_url_fragment)
         IN  IF link_url = EmptyUrl
             THEN DiscoverLoopNoCapacity(Tail(links), acc, parent, cfg)
             ELSE IF normalized_url \in acc.visited
             THEN DiscoverLoopNoCapacity(Tail(links),
                               [acc EXCEPT !.skipped = @ \cup {normalized_url}],
                               parent, cfg)
             ELSE IF cfg.same_host_only /\ GetFullHost(normalized_url) # cfg.start_host
             THEN DiscoverLoopNoCapacity(Tail(links), acc, parent, cfg)
             ELSE DiscoverLoopNoCapacity(Tail(links),
                     [acc EXCEPT !.visited = @ \cup {normalized_url},
                                 !.kids = Append(@,
                                     LinkNode(normalized_url, parent.depth + 1,
                                              parent.url, parent.idx,
                                              IsInternalUrl(normalized_url, cfg.base_domain)))],
                     parent, cfg)

\* DiscoverLoop without the visited test of lines 201-203
RECURSIVE DiscoverLoopNoVisitedTest(_, _, _, _)
DiscoverLoopNoVisitedTest(links, acc, parent, cfg) ==
    IF links = <<>> THEN acc
    ELSE LET link_url == Head(links)
             normalized_url == NormalizeUrl(link_url, cfg.preserve_url_fragment)
         IN  IF link_url = EmptyUrl
             THEN DiscoverLoopNoVisitedTest(Tail(links), acc, parent, cfg)
             ELSE IF Cardinality(acc.visited) >= cfg.max_pages
             THEN acc
             ELSE IF cfg.same_host_only /\ GetFullHost(normalized_url) # cfg.start_host
             THEN DiscoverLoopNoVisitedTest(Tail(links), acc, parent, cfg)
             ELSE DiscoverLoopNoVisitedTest(Tail(links),
                     [acc EXCEPT !.visited = @ \cup {normalized_url},
                                 !.kids = Append(@,
                                     LinkNode(normalized_url, parent.depth + 1,
                                              parent.url, parent.idx,
                                              IsInternalUrl(normalized_url, cfg.base_domain)))],
                     parent, cfg)

\* The loop of _discover_child_links (lines 193-225) over links, threading the
\* visited set, the children created so far and the links skipped as visited.
\* acc = [visited, kids, skipped]
RECURSIVE DiscoverLoop(_, _, _, _)
DiscoverLoop(links, acc, parent, cfg) ==
    IF links = <<>> THEN acc
    ELSE LET link_url == Head(links)
             normalized_url == NormalizeUrl(link_url, cfg.preserve_url_fragment)
         IN  IF link_url = EmptyUrl
             THEN DiscoverLoop(Tail(links), acc, parent, cfg)
             ELSE IF normalized_url \in acc.visited
             THEN DiscoverLoop(Tail(links),
                               [acc EXCEPT !.skipped = @ \cup {normalized_url}],
                               parent, cfg)
             ELSE IF Cardinality(acc.visited) >= cfg.max_pages
             THEN acc
             ELSE IF cfg.same_host_only /\ GetFullHost(normalized_url) # cfg.start_host
             THEN DiscoverLoop(Tail(links), acc, parent, cfg)
             ELSE DiscoverLoop(Tail(links),
                     [acc EXCEPT !.visited = @ \cup {normalized_url},
                                 !.kids = Append(@,
                                     LinkNode(normalized_url, parent.depth + 1,
                                              parent.url, parent.idx,
                                              IsInternalUrl(normalized_url, cfg.base_domain)))],
                     parent, cfg)

DiscoverChildLinks(links, vis, parent, cfg) ==
    DiscoverLoop(links, [visited |-> vis, kids |-> <<>>, skipped |-> {}], parent, cfg)

\* a budget test that stops one page early
BudgetLeftButOne(crawled, max_pages) == crawled + 1 < max_pages

\* crawl_with_sem line 137: the budget test made after the semaphore is taken
BudgetLeft(crawled, max_pages) == crawled < max_pages

\* crawl_with_sem line 160: whether the links of a fetched page are followed
FollowsLinks(depth, crawled, cfg) ==
    depth < cfg.max_depth /\ crawled < cfg.max_pages

MapperConfigs ==
    [max_depth : 0..MaxDepth, max_pages : 0..MaxPages,
     max_concurrent : {1, MaxConcurrent},
     include_external : BOOLEAN, same_host_only : BOOLEAN,
     preserve_url_fragment : {FALSE}]

MapperStart ==
    /\ mcfg \in MapperConfigs
    /\ start_url \in Seeds
    /\ mphase = "new"
    /\ nodes = <<>>
    /\ visited = {}
    /\ current_depth = 0
    /\ wave = <<>>
    /\ pages_crawled = 0
    /\ fetches = 0
    /\ skips = [sibling |-> FALSE, seed |-> FALSE]

\* map_links lines 62-89
MapLinks ==
    /\ mphase = "new"
    /\ mphase' = "loop"
    /\ nodes' = <<LinkNode(start_url, 0, EmptyUrl, NoParent, TRUE)>>
    /\ visited' = {NormalizeUrl(start_url, mcfg.preserve_url_fragment)}
    /\ wave' = <<1>>
    /\ pages_crawled' = 0
    /\ current_depth' = 0
    /\ UNCHANGED <<mcfg, start_url, fetches, skips>>
    /\ UNCHANGED notMapper

\* map_links lines 91-93: the loop ends (range exhausted or break)
LoopExit ==
    /\ mphase = "loop"
    /\ \/ current_depth > mcfg.max_depth
       \/ wave = <<>>
       \/ pages_crawled >= mcfg.max_pages
    /\ mphase' = "done"
    /\ UNCHANGED <<mcfg, start_url, nodes, visited, current_depth, wave,
                   pages_crawled, fetches, skips>>
    /\ UNCHANGED notMapper

\* map_links lines 98-100 and _crawl_depth_level lines 133-166: one task per
\* node of the wave is created
WaveBegin ==
    /\ mphase = "loop"
    /\ current_depth <= mcfg.max_depth
    /\ wave # <<>>
    /\ pages_crawled < mcfg.max_pages
    /\ mphase' = "wave"
    /\ nodes' = [i \in 1..Len(nodes) |->
                    IF i \in Range(wave) THEN [nodes[i] EXCEPT !.st = "queued"]
                    ELSE nodes[i]]
    /\ UNCHANGED <<mcfg, start_url, visited, current_depth, wave, pages_crawled,
                   fetches, skips>>
    /\ UNCHANGED notMapper

Fetching == {i \in 1..Len(nodes) : nodes[i].st = "fetching"}

\* crawl_with_sem lines 136-141: take the semaphore, test the budget, call arun
Acquire(n) ==
    /\ mphase = "wave"
    /\ nodes[n].st = "queued"
    /\ Cardinality(Fetching) < mcfg.max_concurrent
    /\ IF BudgetLeft(pages_crawled, mcfg.max_pages)
       THEN /\ nodes' = [nodes EXCEPT ![n].st = "fetching"]
            /\ fetches' = fetches + 1
       ELSE /\ nodes' = [nodes EXCEPT ![n].st = "skipped"]
            /\ UNCHANGED fetches
    /\ UNCHANGED <<mcfg, start_url, mphase, visited, current_depth, wave,
                   pages_crawled, skips>>
    /\ UNCHANGED notMapper

\* crawl_with_sem lines 147-150: arun returned an unsuccessful result
FetchFailed(n) ==
    /\ mphase = "wave"
    /\ nodes[n].st = "fetching"
    /\ nodes' = [nodes EXCEPT ![n].st = "failed"]
    /\ pages_crawled' = pages_crawled + 1
    /\ UNCHANGED <<mcfg, start_url, mphase, visited, current_depth, wave, fetches,
                   skips>>
    /\ UNCHANGED notMapper

\* arun raised: gather(return_exceptions=True) keeps the exception (line 166)
FetchRaised(n) ==
    /\ mphase = "wave"
    /\ nodes[n].st = "fetching"
    /\ nodes' = [nodes EXCEPT ![n].st = "raised"]
    /\ UNCHANGED <<mcfg, start_url, mphase, visited, current_depth, wave,
                   pages_crawled, fetches, skips>>
    /\ UNCHANGED notMapper

\* crawl_with_sem lines 152-163: arun returned a successful result whose page
\* carries the anchors hrefs
FetchOk(n, hrefs) ==
    /\ mphase = "wave"
    /\ nodes[n].st = "fetching"
    /\ pages_crawled' = pages_crawled + 1
    /\ LET cfg == [max_pages |-> mcfg.max_pages,
                   same_host_only |-> mcfg.same_host_only,
                   preserve_url_fragment |-> mcfg.preserve_url_fragment,
                   start_host |-> GetFullHost(start_url),
                   base_domain |-> GetBaseDomain(start_url)]
           links == LinksToProcess(ExtractLinks(hrefs, nodes[n].url, "internal"),
                                   ExtractLinks(hrefs, nodes[n].url, "external"),
                                   mcfg.include_external)
           parent == [url |-> nodes[n].url, depth |-> current_depth, idx |-> n]
           d == DiscoverChildLinks(links, visited, parent, cfg)
           first == Len(nodes)
       IN  IF FollowsLinks(current_depth, pages_crawled + 1, mcfg)
           THEN /\ visited' = d.visited
                /\ nodes' = [nodes EXCEPT
                                ![n].st = "ok",
                                ![n].children = [k \in 1..Len(d.kids) |-> first + k]]
                             \o d.kids
                /\ skips' =
                     [sibling |-> skips.sibling \/
                          \E i \in 1..Len(nodes) :
                             /\ nodes[i].url \in d.skipped
                             /\ nodes[i].depth = current_depth + 1
                             /\ nodes[i].parent # n
                             /\ n > 1,
                      seed |-> skips.seed \/
                          NormalizeUrl(start_url, mcfg.preserve_url_fragment) \in d.skipped]
           ELSE /\ nodes' = [nodes EXCEPT ![n].st = "ok"]
                /\ UNCHANGED <<visited, skips>>
    /\ UNCHANGED <<mcfg, start_url, mphase, current_depth, wave, fetches>>
    /\ UNCHANGED notMapper

RECURSIVE ChildrenOf(_)
ChildrenOf(w) ==
    IF w = <<>> THEN <<>> ELSE nodes[Head(w)].children \o ChildrenOf(Tail(w))

\* a gather that is not awaited
GatherDoneAtOnce(w) == TRUE

\* line 166: the gather awaited by _crawl_depth_level is over when every
\* crawl_with_sem of the wave is
GatherDone(w) == \A i \in Range(w) : nodes[i].st \notin {"queued", "fetching"}

\* gather returned (line 166); map_links lines 102-107
WaveEnd ==
    /\ mphase = "wave"
    /\ GatherDone(wave)
    /\ wave' = ChildrenOf(wave)
    /\ current_depth' = current_depth + 1
    /\ mphase' = "loop"
    /\ UNCHANGED <<mcfg, start_url, nodes, visited, pages_crawled, fetches, skips>>
    /\ UNCHANGED notMapper

\* the nodes whose fetch was attempted: arun was called for them
Attempted == {i \in 1..Len(nodes) : nodes[i].st \in {"ok", "failed", "raised"}}

\* C33: at every wave boundary, pages_crawled equals the number of nodes
\* whose fetch was attempted, whether arun returned a success, returned a
\* failure or raised.
CrawledCountsAttempts ==
    mphase # "wave" => pages_crawled = Cardinality(Attempted)

\* C38: when map_links has returned, with max_pages >= 1 and no call of arun
\* having raised, every node of the tree has been fetched, arun was called
\* once per node, and no two nodes carry the same url: no node is left
\* unfetched by the page or depth budget and no url is fetched twice.
TreeAllFetched ==
    (/\ mphase = "done"
     /\ mcfg.max_pages >= 1
     /\ \A i \in 1..Len(nodes) : nodes[i].st # "raised")
    => /\ \A i \in 1..Len(nodes) : nodes[i].st \in {"ok", "failed"}
       /\ fetches = Len(nodes)
       /\ \A i, j \in 1..Len(nodes) : i # j => nodes[i].url # nodes[j].url

\* C38 witness: map_links has returned a tree of max_pages nodes, three or
\* more, all fetched, one of them without success, no wave having run past
\* the page budget
TreeAllFetchedWitness ==
    /\ mphase = "done"
    /\ Len(nodes) >= 3
    /\ Len(nodes) = mcfg.max_pages
    /\ fetches = mcfg.max_pages
    /\ mcfg.max_concurrent > 1
    /\ \A i \in 1..Len(nodes) : nodes[i].st \in {"ok", "failed"}
    /\ \E i \in 1..Len(nodes) : nodes[i].st = "failed"

NextMapper ==
    \/ MapLinks
    \/ LoopExit
    \/ WaveBegin
    \/ \E n \in 1..Len(nodes) : Acquire(n)
    \/ \E n \in 1..Len(nodes) : FetchFailed(n)
    \/ \E n \in 1..Len(nodes) : FetchRaised(n)
    \/ \E n \in 1..Len(nodes) : \E hrefs \in PageHrefs : FetchOk(n, hrefs)
    \/ WaveEnd


(***************************************************************************)
(* Claims about the link mapper (SpecMapper).                              *)
(***************************************************************************)
NodeIds == 1..Len(nodes)

\* C1: at every moment of a map_links run, and so in the returned tree, at
\* most max_pages fetches have been attempted and no node lies deeper than
\* max_depth, whatever the pages link to, whichever fetches fail or raise and
\* however the fetches of a wave interleave.
BfsBounds ==
    /\ fetches <= mcfg.max_pages
    /\ \A i \in NodeIds : nodes[i].depth <= mcfg.max_depth

\* C1 witness: two fetches of one wave in flight at once at the deepest level,
\* the page budget used up by them, after a failed fetch earlier in the run.
BfsBoundsWitness ==
    /\ mphase = "wave"
    /\ mcfg.max_concurrent > 1
    /\ Cardinality(Fetching) = 2
    /\ current_depth = mcfg.max_depth
    /\ fetches = mcfg.max_pages
    /\ \E i \in NodeIds : nodes[i].st = "ok" /\ nodes[i].children # <<>>

\* C2: no two nodes of the tree carry the same url, and no child carries the
\* normalized seed.
BfsUnique ==
    /\ \A i, j \in NodeIds : i # j => nodes[i].url # nodes[j].url
    /\ \A i \in NodeIds :
          i > 1 => nodes[i].url # NormalizeUrl(start_url, mcfg.preserve_url_fragment)

\* C2 witness: two pages of one wave linked to the same new URL, the first to
\* finish got it as a child and the other skipped it; a link that normalizes
\* to the seed was skipped as well.
BfsUniqueWitness ==
    /\ mphase = "done"
    /\ mcfg.max_concurrent > 1
    /\ skips.sibling
    /\ skips.seed
    /\ start_url # NormalizeUrl(start_url, mcfg.preserve_url_fragment)

\* C19: the wave of depth d is over before the wave of depth d + 1 begins:
\* once a node has a crawl task, every node less deep than it has a task that
\* is over, so no fetch of a deeper node starts while a fetch is in flight.
WaveBarrier ==
    \A i, j \in NodeIds :
        (nodes[j].depth > nodes[i].depth /\ nodes[j].st # "new")
        => nodes[i].st \notin {"new", "queued", "fetching"}

\* C19 witness: a fetch of depth 1 is in flight while a node of depth 2, found
\* by a fetch of the same wave that is over, waits for the next wave; and an
\* earlier wave has given way to this one.
WaveBarrierWitness ==
    /\ mphase = "wave"
    /\ current_depth = 1
    /\ \E i, j \in NodeIds :
          /\ nodes[i].depth = 1 /\ nodes[i].st = "fetching"
          /\ nodes[j].depth = 2 /\ nodes[j].st = "new"
    /\ nodes[1].st = "ok"

\* C20: the root has depth 0 and no parent; every node in a children list is
\* one level deeper than the node that holds the list and names that node's
\* url as its parent_url; every node but the root is in one children list.
TreeShape ==
    /\ nodes # <<>> => /\ nodes[1].depth = 0
                       /\ nodes[1].parent_url = EmptyUrl
                       /\ nodes[1].parent = NoParent
    /\ \A p \in NodeIds : \A k \in 1..Len(nodes[p].children) :
          LET c == nodes[p].children[k]
          IN  /\ c \in NodeIds
              /\ nodes[c].depth = nodes[p].depth + 1
              /\ nodes[c].parent_url = nodes[p].url
    /\ \A c \in NodeIds \ {1} :
          Cardinality({p \in NodeIds : c \in Range(nodes[p].children)}) = 1

\* C20 witness: a returned tree with a node of depth 2 under a node of depth 1
\* under a root whose url is not in canonical form.
TreeShapeWitness ==
    /\ mphase = "done"
    /\ start_url # NormalizeUrl(start_url, FALSE)
    /\ \E p, c \in NodeIds :
          /\ c \in Range(nodes[p].children)
          /\ nodes[p].depth = 1
          /\ nodes[c].depth = 2
          /\ nodes[c].parent_url = nodes[p].url


(***************************************************************************)
(* RateLimiter.  Delays and times are integers in units of 1/Scale second; *)
(* Scale is large enough for MaxOps multiplications by 3/4, 3/2 or 5/2 to  *)
(* stay exact.                                                             *)
(***************************************************************************)
Scale == 4 ^ MaxOps

Seconds(n) == n * Scale

\* time.time() when the model starts: far from the 0 that stands for "never"
Epoch == Seconds(1000)

Domains == {"a.test", "b.test"}

\* the domain the tasks of the pacing specification fetch from
PacedDomains == {"a.test"}

Callers == 1..MaxCallers

\* Python dicts as functions on the set of their keys
EmptyDict == [k \in {} |-> 0]

DictGet(d, k, default) == IF k \in DOMAIN d THEN d[k] ELSE default

DictSet(d, k, v) == [x \in DOMAIN d \cup {k} |-> IF x = k THEN v ELSE d[x]]

DictDel(d, k) == [x \in DOMAIN d \ {k} |-> d[x]]

\* random.uniform(0.75, 1.25), in quarters: the two ends and the middle
Jitters == {3, 4, 5}

\* rate_limiter.py lines 44, 65, 83
CurrentDelay(delays, cfg, domain) == DictGet(delays, domain, cfg.base_delay_min)

\* rate_limiter.py lines 47-48
TimeSinceLast(last, t, domain) == t - DictGet(last, domain, 0)

\* rate_limiter.py line 51
MustWait(delays, last, cfg, t, domain) ==
    TimeSinceLast(last, t, domain) < CurrentDelay(delays, cfg, domain)

\* rate_limiter.py line 52
WaitTime(delays, last, cfg, t, domain) ==
    CurrentDelay(delays, cfg, domain) - TimeSinceLast(last, t, domain)

\* a reduction that forgets the floor of base_delay_min
SuccessDelayNoFloor(current_delay, cfg) == (current_delay * 3) \div 4

\* rate_limiter.py line 68
SuccessDelay(current_delay, cfg) ==
    Max2(cfg.base_delay_min, (current_delay * 3) \div 4)

\* a backoff that forgets the factor 2
BackoffDelayNoDoubling(current_delay, jitter, cfg) ==
    Min2((current_delay * jitter) \div 4, cfg.max_delay)

\* rate_limiter.py lines 88-91
BackoffDelay(current_delay, jitter, cfg) ==
    Min2((current_delay * 2 * jitter) \div 4, cfg.max_delay)

\* rate_limiter.py line 112
ShouldRetry(failure_count, cfg) == failure_count < cfg.max_retries

LimiterConfigs ==
    [base_delay_min : {Seconds(1), Seconds(3)},
     max_delay : {Seconds(2), Seconds(4)},
     max_retries : {2}]

\* RateLimiter.__init__, lines 28-35, and the tasks that will call it
LimiterNew(cfg) ==
    /\ lcfg = cfg
    /\ domain_delays = EmptyDict
    /\ last_request = EmptyDict
    /\ failure_counts = EmptyDict
    /\ now = Epoch
    /\ sleepers = EmptyDict
    /\ returns = [o \in Domains |-> <<>>]
    /\ rl_run = [o \in Domains |-> <<>>]
    /\ ops = 0

\* what a return of wait() at time t leaves in the history of its domain: the
\* return before it happened at last[domain], which wait() set on returning
Returned(history, delay, last, t, domain) ==
    IF history = <<>>
    THEN <<[delay |-> delay, first |-> TRUE, elapsed |-> 0, required |-> 0]>>
    ELSE <<[delay |-> delay, first |-> FALSE, elapsed |-> t - last[domain],
            required |-> history[1].delay]>>

\* wait(), lines 44-57, up to its return or its suspension in asyncio.sleep
WaitStep(c, domain) ==
    /\ c \notin DOMAIN sleepers
    /\ LET delay == CurrentDelay(domain_delays, lcfg, domain)
       IN  IF MustWait(domain_delays, last_request, lcfg, now, domain)
           THEN /\ sleepers' = DictSet(sleepers, c,
                                  [domain |-> domain, delay |-> delay,
                                   wake |-> now + WaitTime(domain_delays, last_request,
                                                           lcfg, now, domain)])
                /\ UNCHANGED <<last_request, returns>>
           ELSE /\ last_request' = DictSet(last_request, domain, now)
                /\ returns' = [returns EXCEPT
                                  ![domain] = Returned(@, delay, last_request, now, domain)]
                /\ UNCHANGED sleepers
    /\ UNCHANGED <<lcfg, domain_delays, failure_counts, now, rl_run, ops>>

Wait(c, domain) == WaitStep(c, domain) /\ UNCHANGED notLimiter

\* wait(), lines 54-57: asyncio.sleep is over
WaitWakeStep(c) ==
    /\ c \in DOMAIN sleepers
    /\ now >= sleepers[c].wake
    /\ last_request' = DictSet(last_request, sleepers[c].domain, now)
    /\ returns' = [returns EXCEPT
                      ![sleepers[c].domain] =
                          Returned(@, sleepers[c].delay, last_request, now,
                                   sleepers[c].domain)]
    /\ sleepers' = DictDel(sleepers, c)
    /\ UNCHANGED <<lcfg, domain_delays, failure_counts, now, rl_run, ops>>

WaitWake(c) == WaitWakeStep(c) /\ UNCHANGED notLimiter

\* on_success, lines 65-72
OnSuccessStep(domain) ==
    /\ domain_delays' = DictSet(domain_delays, domain,
                            SuccessDelay(CurrentDelay(domain_delays, lcfg, domain), lcfg))
    /\ failure_counts' = DictSet(failure_counts, domain, 0)
    /\ rl_run' = [rl_run EXCEPT ![domain] = <<>>]
    /\ UNCHANGED <<lcfg, last_request, now, sleepers, returns>>

\* on_success called by the environment of the limiter
OnSuccess(domain) ==
    /\ ops < MaxOps
    /\ ops' = ops + 1
    /\ OnSuccessStep(domain)
    /\ UNCHANGED notLimiter

\* on_rate_limited, lines 83-100
OnRateLimited(domain, jitter) ==
    /\ ops < MaxOps
    /\ ops' = ops + 1
    /\ LET current_delay == CurrentDelay(domain_delays, lcfg, domain)
           new_delay == BackoffDelay(current_delay, jitter, lcfg)
       IN  /\ domain_delays' = DictSet(domain_delays, domain, new_delay)
           /\ rl_run' = [rl_run EXCEPT
                            ![domain] = IF @ = <<>> THEN <<current_delay, new_delay>>
                                        ELSE LastTwo(@, new_delay)]
    /\ failure_counts' = DictSet(failure_counts, domain,
                             DictGet(failure_counts, domain, 0) + 1)
    /\ UNCHANGED <<lcfg, last_request, now, sleepers, returns>>
    /\ UNCHANGED notLimiter

\* a reset that forgets every domain, as reset_all does
ResetEveryDomain(domain) ==
    /\ ops < MaxOps
    /\ ops' = ops + 1
    /\ domain_delays' = EmptyDict
    /\ last_request' = EmptyDict
    /\ failure_counts' = EmptyDict
    /\ rl_run' = [o \in Domains |-> <<>>]
    /\ returns' = [o \in Domains |-> <<>>]
    /\ UNCHANGED <<lcfg, now, sleepers>>
    /\ UNCHANGED notLimiter

\* reset_domain, lines 120-125
ResetDomain(domain) ==
    /\ ops < MaxOps
    /\ ops' = ops + 1
    /\ domain_delays' = DictDel(domain_delays, domain)
    /\ last_request' = DictDel(last_request, domain)
    /\ failure_counts' = DictDel(failure_counts, domain)
    /\ rl_run' = [rl_run EXCEPT ![domain] = <<>>]
    /\ returns' = [returns EXCEPT ![domain] = <<>>]
    /\ UNCHANGED <<lcfg, now, sleepers>>
    /\ UNCHANGED notLimiter

\* the instants the clock may move to next: the wake-up time of a sleeping
\* task, or one second on; a task whose sleep is over runs before time moves on
NextInstants ==
    {sleepers[c].wake : c \in DOMAIN sleepers} \cup {now + Seconds(1)}

ClockAdvance(t) ==
    /\ t > now
    /\ t <= Epoch + Seconds(MaxClock)
    /\ \A c \in DOMAIN sleepers : t <= sleepers[c].wake
    /\ now' = t
    /\ UNCHANGED <<lcfg, domain_delays, last_request, failure_counts, sleepers,
                   returns, rl_run, ops>>
    /\ UNCHANGED notLimiter

\* a limiter with base_delay_min = 1.0 s and a max_delay the backoff reaches
PacingConfig ==
    [base_delay_min |-> Seconds(1), max_delay |-> Seconds(2), max_retries |-> 2]

\* RateLimiter() with its default arguments (lines 17-19)
DefaultBaseDelayMin == 1

DefaultMaxDelay == 60

DefaultMaxRetries == 3

DefaultLimiterConfig ==
    [base_delay_min |-> Seconds(DefaultBaseDelayMin),
     max_delay |-> Seconds(DefaultMaxDelay),
     max_retries |-> DefaultMaxRetries]

\* the backoff state under any sequence of outcome reports
NextLimiter ==
    \/ \E o \in Domains : OnSuccess(o)
    \/ \E o \in Domains, j \in Jitters : OnRateLimited(o, j)
    \/ \E o \in Domains : ResetDomain(o)

\* tasks pacing themselves with wait() on one domain while outcomes are
\* reported for it and for another domain, and either domain is reset
NextOrigins ==
    \/ \E c \in Callers, o \in PacedDomains : Wait(c, o)
    \/ \E c \in Callers : WaitWake(c)
    \/ \E o \in Domains : OnSuccess(o)
    \/ \E o \in Domains, j \in Jitters : OnRateLimited(o, j)
    \/ \E o \in Domains : ResetDomain(o)
    \/ \E t \in NextInstants : ClockAdvance(t)

\* tasks pacing themselves with wait() while outcomes are reported
NextPacing ==
    \/ \E c \in Callers, o \in PacedDomains : Wait(c, o)
    \/ \E c \in Callers : WaitWake(c)
    \/ \E o \in PacedDomains : OnSuccess(o)
    \/ \E o \in PacedDomains, j \in Jitters : OnRateLimited(o, j)
    \/ \E t \in NextInstants : ClockAdvance(t)


(***************************************************************************)
(* Claims about the rate limiter (SpecPacing, SpecLimiter).                *)
(***************************************************************************)
\* C5: two returns of wait() for one domain are at least as far apart as the
\* current delay of the domain was at the call of the earlier one, also when
\* the two calls are pending at the same time.  (Stated on consecutive
\* returns; later returns are further apart still.)
WaitSpacing ==
    \A o \in Domains :
        returns[o] # <<>> => returns[o][1].elapsed >= returns[o][1].required

\* C40: in a limiter whose base_delay_min is at most its max_delay, the
\* current delay of every domain stays between base_delay_min and max_delay
\* under any sequence of on_success, on_rate_limited and reset_domain calls.
DelayWithinBounds ==
    lcfg.base_delay_min <= lcfg.max_delay
    => \A o \in Domains :
          /\ CurrentDelay(domain_delays, lcfg, o) >= lcfg.base_delay_min
          /\ CurrentDelay(domain_delays, lcfg, o) <= lcfg.max_delay

\* C40 witness: a success after a rate limit has left a domain with a delay
\* strictly between the two bounds
DelayWithinBoundsWitness ==
    \E o \in DOMAIN domain_delays :
        /\ o \in DOMAIN failure_counts
        /\ failure_counts[o] = 0
        /\ domain_delays[o] > lcfg.base_delay_min
        /\ domain_delays[o] < lcfg.max_delay

\* what the limiter holds about a domain: the entries of its three dicts
OriginState(delays, last, failures, o) ==
    [delay |-> IF o \in DOMAIN delays THEN <<delays[o]>> ELSE <<>>,
     last |-> IF o \in DOMAIN last THEN <<last[o]>> ELSE <<>>,
     failures |-> IF o \in DOMAIN failures THEN <<failures[o]>> ELSE <<>>]

\* the waits for a domain that are suspended in their sleep
Sleeping(s, o) == {[caller |-> c, wake |-> s[c].wake] : c \in {k \in DOMAIN s : s[k].domain = o}}

\* a step of wait, on_success, on_rate_limited or reset_domain for domain o
CallFor(o) ==
    \/ \E c \in Callers : WaitStep(c, o)
    \/ \E c \in DOMAIN sleepers : sleepers[c].domain = o /\ WaitWakeStep(c)
    \/ OnSuccess(o)
    \/ \E j \in Jitters : OnRateLimited(o, j)
    \/ ResetDomain(o)

\* C34: a call of wait, on_success, on_rate_limited or reset_domain for a
\* domain leaves the current delay, the last-request time and the failure
\* count of every other domain as they were, and neither suspends nor
\* prolongs a wait for another domain: the waits sleeping for it keep their
\* wake-up times, and a wait for it that would have returned at once still
\* does.
OriginsIndependent ==
    [][\A o \in Domains :
          CallFor(o) =>
              \A p \in Domains \ {o} :
                 /\ OriginState(domain_delays', last_request', failure_counts', p)
                       = OriginState(domain_delays, last_request, failure_counts, p)
                 /\ Sleeping(sleepers', p) = Sleeping(sleepers, p)
                 /\ MustWait(domain_delays', last_request', lcfg', now', p)
                       = MustWait(domain_delays, last_request, lcfg, now, p)]_vars

\* C34 witness: a domain was rate limited while a wait for another domain,
\* which has a last-request time and no delay of its own, was asleep
OriginsIndependentWitness ==
    /\ "b.test" \in DOMAIN failure_counts
    /\ failure_counts["b.test"] = 1
    /\ domain_delays["b.test"] > lcfg.base_delay_min
    /\ "a.test" \in DOMAIN last_request
    /\ "a.test" \notin DOMAIN domain_delays
    /\ \E c \in DOMAIN sleepers : sleepers[c].domain = "a.test"

DispatcherClasses ==
    {"SemaphoreDispatcher", "MemoryAdaptiveDispatcher", "DomainAwareDispatcher"}

\* count is semaphore_count, or base_concurrency for the memory-adaptive class
DispatcherConfigs == [class : DispatcherClasses, count : 1..MaxSemaphore]

\* process.memory_percent() against the threshold: above it, under half of
\* it, or in between
MemoryReadings == {"high", "low", "between"}

NoResult == [task |-> 0, kind |-> "none"]

TaskValue(i) == [task |-> i, kind |-> "value"]

TaskException(i) == [task |-> i, kind |-> "exception"]

Tasks == 1..Len(tstate)

Running == {i \in Tasks : tstate[i] = "running"}

\* gather without return_exceptions
ReturnExceptionsOff == FALSE

\* dispatcher.py lines 78, 134, 222, 251
ReturnExceptions == TRUE

\* a gather that hands the outcomes back as they came in
GatherByCompletion(held, order) == [k \in 1..Len(order) |-> held[order[k]]]

\* asyncio.gather (lines 76-79, 132-135, 222, 249-252): the outcomes by the
\* position of their awaitable in the argument list
Gather(held, order) == held

\* the constructors, lines 50-53, 104-108, 187-188
DispatcherNew(cfg) ==
    /\ dcfg = cfg
    /\ current_concurrency = cfg.count
    /\ dphase = "idle"
    /\ dcall = [with_urls |-> FALSE, domains |-> <<>>, permits |-> 0]
    /\ tstate = <<>>
    /\ sem = 0
    /\ waiters = <<>>
    /\ slots = <<>>
    /\ completion = <<>>
    /\ returned = <<>>
    /\ dispatches = 0

\* lines 69, 124, 202, 242
SemaphoreSize ==
    IF dcfg.class = "MemoryAdaptiveDispatcher" THEN current_concurrency ELSE dcfg.count

\* dispatch / dispatch_with_urls up to the await of gather
Dispatch(n, with_urls, domains) ==
    /\ dphase # "running"
    /\ dispatches < MaxDispatches
    /\ with_urls => dcfg.class = "DomainAwareDispatcher"
    /\ Len(domains) = IF with_urls THEN n ELSE 0
    /\ dispatches' = dispatches + 1
    /\ dphase' = "running"
    /\ dcall' = [with_urls |-> with_urls, domains |-> domains, permits |-> SemaphoreSize]
    /\ tstate' = [i \in 1..n |-> "new"]
    /\ sem' = SemaphoreSize
    /\ waiters' = <<>>
    /\ slots' = [i \in 1..n |-> NoResult]
    /\ completion' = <<>>
    /\ returned' = <<>>
    /\ UNCHANGED <<dcfg, current_concurrency>>
    /\ UNCHANGED limiterVars
    /\ UNCHANGED notDispatch

\* the wrappers before task i have all started
InOrder(i) == \A j \in 1..(i - 1) : tstate[j] # "new"

\* "async with semaphore", entry: a free permit is taken at once unless
\* others queue for one
Enter(i) ==
    IF sem > 0 /\ waiters = <<>>
    THEN /\ sem' = sem - 1
         /\ waiters' = waiters
         /\ tstate' = [tstate EXCEPT ![i] = "running"]
    ELSE /\ sem' = sem
         /\ waiters' = Append(waiters, i)
         /\ tstate' = [tstate EXCEPT ![i] = "queued"]

\* "async with semaphore", exit, by return or by exception: the permit
\* goes to the first of the queue
Leave(i) ==
    IF waiters = <<>>
    THEN /\ sem' = sem + 1
         /\ waiters' = waiters
         /\ tstate' = [tstate EXCEPT ![i] = "done"]
    ELSE /\ sem' = sem
         /\ waiters' = Tail(waiters)
         /\ tstate' = [tstate EXCEPT ![i] = "done", ![Head(waiters)] = "running"]

\* sem_task, lines 71-73, 128-130, 244-246, up to the await of the task
SemTask(i) ==
    /\ dphase = "running"
    /\ ~dcall.with_urls
    /\ tstate[i] = "new"
    /\ InOrder(i)
    /\ Enter(i)
    /\ UNCHANGED <<dcfg, current_concurrency, dphase, dcall, slots, completion,
                   returned, dispatches>>
    /\ UNCHANGED limiterVars
    /\ UNCHANGED notDispatch

\* rate_limited_task, lines 204-212, up to its first suspension: in the sleep
\* of wait(), in the semaphore or in the task
RateLimitedTask(i) ==
    /\ dphase = "running"
    /\ dcall.with_urls
    /\ tstate[i] = "new"
    /\ InOrder(i)
    /\ WaitStep(i, dcall.domains[i])
    /\ IF MustWait(domain_delays, last_request, lcfg, now, dcall.domains[i])
       THEN /\ tstate' = [tstate EXCEPT ![i] = "sleeping"]
            /\ UNCHANGED <<sem, waiters>>
       ELSE Enter(i)
    /\ UNCHANGED <<dcfg, current_concurrency, dphase, dcall, slots, completion,
                   returned, dispatches>>
    /\ UNCHANGED notDispatch

\* rate_limited_task, lines 208-212, from the end of the sleep of wait()
RateLimitedTaskWake(i) ==
    /\ dphase = "running"
    /\ tstate[i] = "sleeping"
    /\ WaitWakeStep(i)
    /\ Enter(i)
    /\ UNCHANGED <<dcfg, current_concurrency, dphase, dcall, slots, completion,
                   returned, dispatches>>
    /\ UNCHANGED notDispatch

\* the task of wrapper i returns: lines 73, 130, 212-214, 246
TaskReturn(i) ==
    /\ dphase = "running"
    /\ tstate[i] = "running"
    /\ slots' = [slots EXCEPT ![i] = TaskValue(i)]
    /\ completion' = Append(completion, i)
    /\ Leave(i)
    /\ IF dcall.with_urls
       THEN OnSuccessStep(dcall.domains[i]) /\ UNCHANGED ops
       ELSE UNCHANGED limiterVars
    /\ UNCHANGED <<dcfg, current_concurrency, dphase, dcall, returned, dispatches>>
    /\ UNCHANGED notDispatch

\* the result of a task that was answered 429 or 503
TaskRateLimitedValue(i) == [task |-> i, kind |-> "rate_limited"]

\* the task of wrapper i returns a result that reports a rate limit: the
\* wrappers do not look at what a task returns (lines 73, 130, 212-214, 246)
TaskRateLimited(i) ==
    /\ dphase = "running"
    /\ tstate[i] = "running"
    /\ slots' = [slots EXCEPT ![i] = TaskRateLimitedValue(i)]
    /\ completion' = Append(completion, i)
    /\ Leave(i)
    /\ IF dcall.with_urls
       THEN OnSuccessStep(dcall.domains[i]) /\ UNCHANGED ops
       ELSE UNCHANGED limiterVars
    /\ UNCHANGED <<dcfg, current_concurrency, dphase, dcall, returned, dispatches>>
    /\ UNCHANGED notDispatch

\* the task of wrapper i raises: lines 73, 130, 215-217, 246; without
\* return_exceptions gather would raise in dispatch (lines 81-83, 137-138,
\* 224-226, 254-256)
TaskRaise(i) ==
    /\ dphase = "running"
    /\ tstate[i] = "running"
    /\ slots' = [slots EXCEPT ![i] = TaskException(i)]
    /\ completion' = Append(completion, i)
    /\ Leave(i)
    /\ IF ReturnExceptions
       THEN UNCHANGED <<dphase, returned>>
       ELSE /\ dphase' = IF dcfg.class = "MemoryAdaptiveDispatcher"
                         THEN "raised" ELSE "returned"
            /\ returned' = <<>>
    /\ UNCHANGED <<dcfg, current_concurrency, dcall, dispatches>>
    /\ UNCHANGED limiterVars
    /\ UNCHANGED notDispatch

\* gather is complete: lines 80, 136-138, 223, 253
DispatchReturn ==
    /\ dphase = "running"
    /\ \A i \in Tasks : tstate[i] = "done"
    /\ returned' = Gather(slots, completion)
    /\ dphase' = "returned"
    /\ UNCHANGED <<dcfg, current_concurrency, dcall, tstate, sem, waiters, slots,
                   completion, dispatches>>
    /\ UNCHANGED limiterVars
    /\ UNCHANGED notDispatch

\* an adjustment without the floor of line 150
AdjustedConcurrencyNoFloor(reading, concurrency, base_concurrency) ==
    CASE reading = "high" -> concurrency - 1
      [] reading = "low" /\ concurrency < base_concurrency ->
             Min2(base_concurrency, concurrency + 1)
      [] OTHER -> concurrency

\* lines 148-163
AdjustedConcurrency(reading, concurrency, base_concurrency) ==
    CASE reading = "high" -> Max2(1, concurrency - 1)
      [] reading = "low" /\ concurrency < base_concurrency ->
             Min2(base_concurrency, concurrency + 1)
      [] OTHER -> concurrency

\* one round of _monitor_memory, lines 144-165; the monitor lives from line
\* 125 to the cancel of line 138
MonitorMemory(reading) ==
    /\ dcfg.class = "MemoryAdaptiveDispatcher"
    /\ dphase = "running"
    /\ current_concurrency' = AdjustedConcurrency(reading, current_concurrency, dcfg.count)
    /\ UNCHANGED <<dcfg, dphase, dcall, tstate, sem, waiters, slots, completion,
                   returned, dispatches>>
    /\ UNCHANGED limiterVars
    /\ UNCHANGED notDispatch

NextDispatch ==
    \/ \E n \in 0..MaxTasks, with_urls \in BOOLEAN, domains \in SeqsUpTo(MaxTasks, Domains) :
           Dispatch(n, with_urls, domains)
    \/ \E i \in Tasks : SemTask(i)
    \/ \E i \in Tasks : RateLimitedTask(i)
    \/ \E i \in Tasks : RateLimitedTaskWake(i)
    \/ \E i \in Tasks : TaskReturn(i)
    \/ \E i \in Tasks : TaskRaise(i)
    \/ DispatchReturn
    \/ \E reading \in MemoryReadings : MonitorMemory(reading)
    \/ \E t \in NextInstants : ClockAdvance(t)

\* dispatch calls whose tasks may come back rate limited
NextRetry ==
    \/ \E n \in 0..MaxTasks, with_urls \in BOOLEAN, domains \in SeqsUpTo(MaxTasks, Domains) :
           Dispatch(n, with_urls, domains)
    \/ \E i \in Tasks : SemTask(i)
    \/ \E i \in Tasks : RateLimitedTask(i)
    \/ \E i \in Tasks : RateLimitedTaskWake(i)
    \/ \E i \in Tasks : TaskReturn(i)
    \/ \E i \in Tasks : TaskRateLimited(i)
    \/ \E i \in Tasks : TaskRaise(i)
    \/ DispatchReturn
    \/ \E reading \in MemoryReadings : MonitorMemory(reading)
    \/ \E t \in NextInstants : ClockAdvance(t)


(***************************************************************************)
(* Claims about the dispatchers (SpecDispatch, SpecRetry).                 *)
(***************************************************************************)
\* C3: whatever the class of the dispatcher and the order the tasks finish
\* in, the list a dispatch call returns is as long as the list of tasks it
\* was given and its i-th element is the outcome of the i-th task.
DispatchOrder ==
    dphase = "returned" =>
        /\ Len(returned) = Len(tstate)
        /\ \A i \in Tasks : returned[i].task = i /\ returned[i].kind # "none"

\* C3 witness: dispatch_with_urls has returned the outcomes of two or more
\* tasks of which the first did not finish first.
DispatchOrderWitness ==
    /\ dphase = "returned"
    /\ dcall.with_urls
    /\ Len(returned) >= 2
    /\ completion[1] # 1

\* C4: a task that raises gives its permit back and has its exception in its
\* own slot of the returned list; dispatch does not raise or return before
\* every other task has run to its end, and returns their outcomes as well.
DispatchIsolation ==
    /\ dphase # "raised"
    /\ \A i \in Tasks :
          slots[i].kind = "exception" =>
              /\ sem + Cardinality(Running) = dcall.permits
              /\ dphase = "returned" =>
                    /\ Len(returned) = Len(tstate)
                    /\ returned[i] = TaskException(i)
                    /\ \A j \in Tasks \ {i} :
                          /\ tstate[j] = "done"
                          /\ slots[j].kind # "none"
                          /\ returned[j] = slots[j]

\* C4 witness: with one permit, the task that finished first raised; a task
\* admitted after it returned a value, and dispatch returned both outcomes.
DispatchIsolationWitness ==
    /\ dphase = "returned"
    /\ dcall.permits = 1
    /\ Len(returned) >= 2
    /\ returned[completion[1]].kind = "exception"
    /\ \E j \in Tasks : returned[j].kind = "value"


\* C16: in dispatch_with_urls a task that has just ended with a rate-limit
\* outcome had on_rate_limited, not on_success, called for its origin (the
\* origin's failure count is positive), and it is over for good only once
\* should_retry no longer holds.
OriginRetry ==
    (dcall.with_urls /\ completion # <<>>)
    => LET i == completion[Len(completion)]
           failures == DictGet(failure_counts, dcall.domains[i], 0)
       IN  slots[i].kind = "rate_limited"
           => failures > 0 /\ ~ShouldRetry(failures, lcfg)

\* C25: in a run of the memory-adaptive dispatcher a task is admitted (starts
\* running) only while fewer other tasks are running than the concurrency
\* level the monitor has set by then, so that with the admitted task at most
\* that many run; running tasks are left alone.
AdaptiveAdmission ==
    [][dcfg.class = "MemoryAdaptiveDispatcher"
       => \A i \in Tasks \cap DOMAIN tstate' :
             (tstate[i] # "running" /\ tstate'[i] = "running")
             => Cardinality({j \in DOMAIN tstate' : tstate'[j] = "running"})
                   <= current_concurrency]_vars

\* C35: the concurrency level of a memory-adaptive dispatcher of base
\* concurrency N >= 1 stays within 1..N, and a round of the monitor lowers it
\* by one, not below 1, on a reading above the threshold, raises it by one,
\* not above N, on a reading under half the threshold, and leaves it alone
\* on any other reading.
ConcurrencyWithinBase ==
    /\ [](dcfg.class = "MemoryAdaptiveDispatcher"
          => current_concurrency >= 1 /\ current_concurrency <= dcfg.count)
    /\ [][\A reading \in MemoryReadings :
             MonitorMemory(reading) =>
                current_concurrency' =
                   IF reading = "high" /\ current_concurrency > 1
                   THEN current_concurrency - 1
                   ELSE IF reading = "low" /\ current_concurrency < dcfg.count
                   THEN current_concurrency + 1
                   ELSE current_concurrency]_vars

\* C35 witness: the monitor has lowered the level of a dispatcher of base
\* concurrency above 1 to the floor
ConcurrencyWithinBaseWitness ==
    /\ dcfg.class = "MemoryAdaptiveDispatcher"
    /\ dphase = "running"
    /\ dcfg.count > 1
    /\ current_concurrency = 1

(***************************************************************************)
(* CacheStorage.  The table of the database file outlives the connection;  *)
(* the statements of one connection run one at a time, in the order they   *)
(* were issued, and every await between two statements lets other tasks    *)
(* in.  utcnow counts whole hours, the unit of ttl_hours.                  *)
(***************************************************************************)
\* Optional[...] values: None, or one value
None == <<>>

Some(x) == <<x>>

CacheTasks == {"t1", "t2"}

CacheUrls == {Url("https", "a.test", "/", ""), Url("https", "a.test", "/p", "")}

Contents == {"", "md"}

\* the metadata argument of set: omitted, an empty dict, a dict with an entry
Metadatas == {None, Some(EmptyDict), Some([k \in {"title"} |-> "T"])}

\* the (content, metadata) pairs handed to set
Payloads ==
    {<<"", None>>, <<"md", Some(EmptyDict)>>, <<"md", Some([k \in {"title"} |-> "T"])>>}

Ttls == 0..MaxTtl

\* hashlib.sha256(content.encode()).hexdigest(), line 111
Sha256(content) == <<"sha256", content>>

\* datetime.isoformat / datetime.fromisoformat, lines 71, 113
IsoFormat(t) == [iso |-> t]

FromIsoFormat(s) == s.iso

\* json.dumps / json.loads on a dict of strings, lines 83, 112
JsonDumps(d) == [json |-> d]

JsonLoads(s) == s.json

\* line 112: an omitted or empty metadata is stored as NULL
MetadataJson(metadata) ==
    IF metadata # None /\ DOMAIN metadata[1] # {}
    THEN Some(JsonDumps(metadata[1]))
    ELSE None

\* line 83
LoadMetadata(metadata_json) ==
    IF metadata_json # None THEN JsonLoads(metadata_json[1]) ELSE EmptyDict

\* the row of lines 115-122
CacheRow(content, metadata, ttl_hours, t) ==
    [content_hash |-> Sha256(content), content |-> content,
     metadata |-> MetadataJson(metadata), created_at |-> IsoFormat(t),
     accessed_at |-> IsoFormat(t), ttl_hours |-> ttl_hours]

\* an expiry test that also fails a record whose age equals its ttl
ExpiredAtTtl(row, t) == t - FromIsoFormat(row.created_at) >= row.ttl_hours

\* an expiry test that never fires
ExpiredNever(row, t) == FALSE

\* lines 71-72, 164-165
Expired(row, t) == t - FromIsoFormat(row.created_at) > row.ttl_hours

\* lines 85-91
CacheRecord(url, row) ==
    [url |-> url, content |-> row.content, content_hash |-> row.content_hash,
     metadata |-> LoadMetadata(row.metadata), created_at |-> row.created_at]

\* SELECT ... WHERE url = ?, fetchone: lines 59-63
SelectRow(rows, url) == IF url \in DOMAIN rows THEN Some(rows[url]) ELSE None

\* UPDATE cache SET accessed_at = ? WHERE url = ?, lines 77-80
TouchRow(rows, url, t) ==
    IF url \in DOMAIN rows
    THEN [rows EXCEPT ![url].accessed_at = IsoFormat(t)]
    ELSE rows

IdleTask == [pc |-> "idle", url |-> EmptyUrl, row |-> None, issued |-> None,
             rows |-> {}, removed |-> 0]

NoGet == [url |-> EmptyUrl, at |-> 0, row |-> None, expect |-> None, result |-> None,
          present |-> FALSE]

\* CacheStorage.__init__, lines 23-24, on a database file holding the table
\* rows
CacheNew(rows) ==
    /\ db_open = FALSE
    /\ table = rows
    /\ utcnow = 0
    /\ cpc = [t \in CacheTasks |-> IdleTask]
    /\ fresh = [u \in CacheUrls |-> None]
    /\ got = None
    /\ calls = 0

AllIdle == \A t \in CacheTasks : cpc[t].pc = "idle"

\* task t is free to make a call, and the calls of the behaviour are not used
\* up; the tasks being alike, t2 is the one that calls while t1 is in a call
CanCall(t) ==
    /\ calls < MaxCalls
    /\ cpc[t].pc = "idle"
    /\ t = "t2" => cpc["t1"].pc # "idle"

\* init, lines 28-45
CacheInitStep ==
    /\ ~db_open
    /\ AllIdle
    /\ db_open' = TRUE
    /\ got' = None
    /\ UNCHANGED <<table, utcnow, cpc, fresh, calls>>
    /\ UNCHANGED notCache

CacheInit == CacheInitStep /\ UNCHANGED removal

\* close, lines 174-177
CacheCloseStep ==
    /\ db_open
    /\ AllIdle
    /\ db_open' = FALSE
    /\ got' = None
    /\ UNCHANGED <<table, utcnow, cpc, fresh, calls>>
    /\ UNCHANGED notCache

CacheClose == CacheCloseStep /\ UNCHANGED removal

\* get, lines 56-66: without a connection or without a row it returns None,
\* with a row it goes on to the expiry test
GetSelectStep(t, url) ==
    /\ CanCall(t)
    /\ calls' = calls + 1
    /\ LET row == IF db_open THEN SelectRow(table, url) ELSE None
       IN  IF row = None
           THEN /\ got' = Some([NoGet EXCEPT
                                    !.url = url, !.at = utcnow,
                                    !.expect = IF db_open THEN fresh[url] ELSE None,
                                    !.present = url \in DOMAIN table])
                /\ UNCHANGED cpc
           ELSE /\ cpc' = [cpc EXCEPT ![t] = [IdleTask EXCEPT !.pc = "get", !.url = url,
                                                             !.row = row,
                                                             !.issued = fresh[url]]]
                /\ got' = None
    /\ UNCHANGED <<db_open, table, utcnow, fresh>>
    /\ UNCHANGED notCache

GetSelect(t, url) == GetSelectStep(t, url) /\ UNCHANGED removal

\* get, lines 68-91: the expiry test on the row read, then the delete or the
\* update of accessed_at, and the return
GetFinishStep(t) ==
    /\ cpc[t].pc = "get"
    /\ LET url == cpc[t].url
           row == cpc[t].row[1]
           expect == IF fresh[url] = cpc[t].issued THEN cpc[t].issued ELSE None
       IN  IF Expired(row, utcnow)
           THEN /\ table' = DictDel(table, url)
                /\ fresh' = [fresh EXCEPT ![url] = None]
                /\ got' = Some([url |-> url, at |-> utcnow, row |-> cpc[t].row,
                                expect |-> expect, result |-> None,
                                present |-> FALSE])
           ELSE /\ table' = TouchRow(table, url, utcnow)
                /\ fresh' = fresh
                /\ got' = Some([url |-> url, at |-> utcnow, row |-> cpc[t].row,
                                expect |-> expect,
                                result |-> Some(CacheRecord(url, row)),
                                present |-> url \in DOMAIN table])
    /\ cpc' = [cpc EXCEPT ![t] = IdleTask]
    /\ UNCHANGED <<db_open, utcnow, calls>>
    /\ UNCHANGED notCache

GetFinish(t) == GetFinishStep(t) /\ UNCHANGED removal

\* set, lines 108-124
CacheSetStep(url, content, metadata, ttl_hours) ==
    /\ \E t \in CacheTasks : CanCall(t)
    /\ calls' = calls + 1
    /\ got' = None
    /\ IF db_open
       THEN /\ table' = DictSet(table, url, CacheRow(content, metadata, ttl_hours, utcnow))
            /\ fresh' = [fresh EXCEPT ![url] = Some([content |-> content,
                                                    metadata |-> metadata,
                                                    ttl_hours |-> ttl_hours,
                                                    at |-> utcnow])]
       ELSE UNCHANGED <<table, fresh>>
    /\ UNCHANGED <<db_open, utcnow, cpc>>
    /\ UNCHANGED notCache

CacheSet(url, content, metadata, ttl_hours) ==
    CacheSetStep(url, content, metadata, ttl_hours) /\ UNCHANGED removal

\* a delete that removes nothing
CacheDeleteNothing(url) ==
    /\ \E t \in CacheTasks : CanCall(t)
    /\ calls' = calls + 1
    /\ got' = None
    /\ UNCHANGED <<db_open, table, fresh, utcnow, cpc>>
    /\ UNCHANGED notCache

\* delete, lines 132-137
CacheDeleteStep(url) ==
    /\ \E t \in CacheTasks : CanCall(t)
    /\ calls' = calls + 1
    /\ got' = None
    /\ IF db_open
       THEN /\ table' = DictDel(table, url)
            /\ fresh' = [fresh EXCEPT ![url] = None]
       ELSE UNCHANGED <<table, fresh>>
    /\ UNCHANGED <<db_open, utcnow, cpc>>
    /\ UNCHANGED notCache

CacheDelete(url) == CacheDeleteStep(url) /\ UNCHANGED removal

\* clear, lines 141-146
CacheClearStep ==
    /\ \E t \in CacheTasks : CanCall(t)
    /\ calls' = calls + 1
    /\ got' = None
    /\ IF db_open
       THEN /\ table' = EmptyDict
            /\ fresh' = [u \in CacheUrls |-> None]
       ELSE UNCHANGED <<table, fresh>>
    /\ UNCHANGED <<db_open, utcnow, cpc>>
    /\ UNCHANGED notCache

CacheClear == CacheClearStep /\ UNCHANGED removal

\* cleanup_expired, lines 154-160: the rows as they are at the SELECT
CleanupSelectStep(t) ==
    /\ CanCall(t)
    /\ db_open
    /\ calls' = calls + 1
    /\ got' = None
    /\ cpc' = [cpc EXCEPT ![t] = [IdleTask EXCEPT
                                     !.pc = "cleanup",
                                     !.rows = {[url |-> u, row |-> table[u]] :
                                                  u \in DOMAIN table}]]
    /\ UNCHANGED <<db_open, table, utcnow, fresh>>
    /\ UNCHANGED notCache

CleanupSelect(t) == CleanupSelectStep(t) /\ UNCHANGED removal

\* a round that deletes its row without the test of line 165
CleanupLoopEvery(t, r) ==
    /\ cpc[t].pc = "cleanup"
    /\ r \in cpc[t].rows
    /\ table' = DictDel(table, r.url)
    /\ fresh' = [fresh EXCEPT ![r.url] = None]
    /\ cpc' = [cpc EXCEPT ![t].rows = @ \ {r}, ![t].removed = @ + 1]
    /\ got' = None
    /\ UNCHANGED <<db_open, utcnow, calls>>
    /\ UNCHANGED notCache

\* cleanup_expired, lines 163-167: one round of the loop; SQL leaves the
\* order of the rows open
CleanupLoopStep(t, r) ==
    /\ cpc[t].pc = "cleanup"
    /\ r \in cpc[t].rows
    /\ IF Expired(r.row, utcnow)
       THEN /\ table' = DictDel(table, r.url)
            /\ fresh' = [fresh EXCEPT ![r.url] = None]
            /\ cpc' = [cpc EXCEPT ![t].rows = @ \ {r}, ![t].removed = @ + 1]
       ELSE /\ cpc' = [cpc EXCEPT ![t].rows = @ \ {r}]
            /\ UNCHANGED <<table, fresh>>
    /\ got' = None
    /\ UNCHANGED <<db_open, utcnow, calls>>
    /\ UNCHANGED notCache

CleanupStep(t, r) == CleanupLoopStep(t, r) /\ UNCHANGED removal

\* cleanup_expired, lines 169-170
CleanupReturnStep(t) ==
    /\ cpc[t].pc = "cleanup"
    /\ cpc[t].rows = {}
    /\ cpc' = [cpc EXCEPT ![t] = IdleTask]
    /\ got' = None
    /\ UNCHANGED <<db_open, table, utcnow, fresh, calls>>
    /\ UNCHANGED notCache

CleanupReturn(t) == CleanupReturnStep(t) /\ UNCHANGED removal

\* an hour goes by
HourPassesStep ==
    /\ utcnow < MaxHours
    /\ utcnow' = utcnow + 1
    /\ got' = None
    /\ UNCHANGED <<db_open, table, cpc, fresh, calls>>
    /\ UNCHANGED notCache

HourPasses == HourPassesStep /\ UNCHANGED removal

NextCache ==
    \/ CacheInit
    \/ CacheClose
    \/ \E t \in CacheTasks, u \in CacheUrls : GetSelect(t, u)
    \/ \E t \in CacheTasks : GetFinish(t)
    \/ \E u \in CacheUrls, p \in Payloads, ttl \in Ttls : CacheSet(u, p[1], p[2], ttl)
    \/ \E u \in CacheUrls : CacheDelete(u)
    \/ CacheClear
    \/ \E t \in CacheTasks : CleanupSelect(t)
    \/ \E t \in CacheTasks : \E r \in cpc[t].rows : CleanupStep(t, r)
    \/ \E t \in CacheTasks : CleanupReturn(t)
    \/ HourPasses


(***************************************************************************)
(* Claims about the cache (SpecCache).                                     *)
(***************************************************************************)
\* C7: on an open cache, a get(u) that comes after set(u, c, m, ttl) with
\* ttl > 0, with no set, delete or clear touching u in between, and whose
\* expiry test runs within ttl hours of the set, returns content c and
\* metadata m (the empty dict when m was omitted or empty).
CacheRoundTrip ==
    got # None =>
        LET g == got[1] IN
        (/\ g.expect # None
         /\ g.expect[1].ttl_hours > 0
         /\ g.at - g.expect[1].at <= g.expect[1].ttl_hours)
        => /\ g.result # None
           /\ g.result[1].content = g.expect[1].content
           /\ g.result[1].metadata = IF g.expect[1].metadata = None THEN EmptyDict
                                     ELSE g.expect[1].metadata[1]

\* C7 witness: a get returned content "md" and the empty dict that a set had
\* stored exactly ttl hours before.
CacheRoundTripWitness ==
    /\ got # None
    /\ got[1].expect # None
    /\ got[1].expect[1].metadata = Some(EmptyDict)
    /\ got[1].expect[1].ttl_hours > 0
    /\ got[1].at - got[1].expect[1].at = got[1].expect[1].ttl_hours
    /\ got[1].result # None
    /\ got[1].result[1].content = "md"
    /\ got[1].result[1].metadata = EmptyDict

\* C8: a get whose expiry test finds the row it read older than its ttl
\* returns None and leaves no row for the url; a get that returns a record
\* returns one whose age at the expiry test is within its ttl.
CacheExpiry ==
    got # None =>
        LET g == got[1] IN
        /\ (g.row # None /\ g.at - FromIsoFormat(g.row[1].created_at) > g.row[1].ttl_hours)
           => g.result = None /\ ~g.present
        /\ g.result # None =>
              /\ g.row # None
              /\ g.at - FromIsoFormat(g.result[1].created_at) <= g.row[1].ttl_hours

\* C8 witness: a get that came after a set with ttl > 0, more than ttl hours
\* later, returned None and removed the row.
CacheExpiryWitness ==
    /\ got # None
    /\ got[1].expect # None
    /\ got[1].expect[1].ttl_hours > 0
    /\ got[1].at - got[1].expect[1].at > got[1].expect[1].ttl_hours
    /\ got[1].row # None
    /\ got[1].result = None
    /\ got[1].url \notin DOMAIN table

(***************************************************************************)
(* Removals (SpecRemoval): the calls of the cache with a record of what    *)
(* delete and clear removed.                                               *)
(***************************************************************************)
NoRemoval ==
    [gone |-> [u \in CacheUrls |-> ""], op |-> None,
     began |-> [t \in CacheTasks |-> FALSE], ret |-> None]

\* how the row of url stands at time t
RowState(rows, url, t) ==
    IF url \notin DOMAIN rows THEN "none"
    ELSE IF Expired(rows[url], t) THEN "expired" ELSE "live"

\* the record once a step is over that is neither a removal nor the return
\* of a get
Quiet(r) == [r EXCEPT !.op = None, !.ret = None]

RemovalCacheInit == CacheInitStep /\ removal' = Quiet(removal)

RemovalCacheClose == CacheCloseStep /\ removal' = Quiet(removal)

RemovalGetSelect(t, url) ==
    /\ GetSelectStep(t, url)
    /\ removal' =
          IF got' # None
          THEN [Quiet(removal) EXCEPT
                   !.ret = Some([url |-> url, after |-> removal.gone[url] # "",
                                 result |-> got'[1].result])]
          ELSE [Quiet(removal) EXCEPT !.began[t] = removal.gone[url] # ""]

RemovalGetFinish(t) ==
    /\ GetFinishStep(t)
    /\ removal' = [Quiet(removal) EXCEPT
                      !.began[t] = FALSE,
                      !.ret = Some([url |-> cpc[t].url, after |-> removal.began[t],
                                    result |-> got'[1].result])]

RemovalSet(url, content, metadata, ttl_hours) ==
    /\ CacheSetStep(url, content, metadata, ttl_hours)
    /\ removal' =
          IF db_open
          THEN [Quiet(removal) EXCEPT
                   !.gone[url] = "",
                   !.began = [t \in CacheTasks |->
                                 removal.began[t] /\ cpc[t].url # url]]
          ELSE Quiet(removal)

RemovalDelete(url) ==
    /\ CacheDeleteStep(url)
    /\ removal' =
          IF db_open
          THEN [Quiet(removal) EXCEPT
                   !.gone[url] = RowState(table, url, utcnow),
                   !.op = Some([op |-> "delete", url |-> url])]
          ELSE Quiet(removal)

RemovalClear ==
    /\ CacheClearStep
    /\ removal' =
          IF db_open
          THEN [Quiet(removal) EXCEPT
                   !.gone = [u \in CacheUrls |-> RowState(table, u, utcnow)],
                   !.op = Some([op |-> "clear", url |-> EmptyUrl])]
          ELSE Quiet(removal)

RemovalHourPasses == HourPassesStep /\ removal' = Quiet(removal)

NextRemoval ==
    \/ RemovalCacheInit
    \/ RemovalCacheClose
    \/ \E t \in CacheTasks, u \in CacheUrls : RemovalGetSelect(t, u)
    \/ \E t \in CacheTasks : RemovalGetFinish(t)
    \/ \E u \in CacheUrls, ttl \in Ttls : RemovalSet(u, "md", None, ttl)
    \/ \E u \in CacheUrls : RemovalDelete(u)
    \/ RemovalClear
    \/ RemovalHourPasses

\* C27: on an open cache, a get(u) that begins after delete(u) or clear(),
\* with no set(u) since, returns None, whether the removed record was expired
\* or not; delete(u) leaves the row of every other url as it was.
CacheRemoval ==
    /\ [](removal.ret # None
          => (removal.ret[1].after => removal.ret[1].result = None))
    /\ [][(removal'.op # None /\ removal'.op[1].op = "delete")
          => \A v \in CacheUrls \ {removal'.op[1].url} :
                SelectRow(table', v) = SelectRow(table, v)]_vars

\* C27 witness: a get has just returned None for a url whose unexpired record
\* delete or clear had removed, while the record of the other url is in the
\* table.
CacheRemovalWitness ==
    /\ db_open
    /\ removal.ret # None
    /\ removal.ret[1].after
    /\ removal.ret[1].result = None
    /\ removal.gone[removal.ret[1].url] = "live"
    /\ \E v \in CacheUrls \ {removal.ret[1].url} : v \in DOMAIN table

\* C39: the removals get and cleanup_expired make of records they found
\* expired never delete a record that is within its ttl at the moment of the
\* deletion, also when a set by another task has replaced the record since
\* the expiry test read it.
ExpiryRemovesOnlyExpired ==
    [][(\E t \in CacheTasks :
           \/ GetFinishStep(t)
           \/ \E r \in cpc[t].rows : CleanupLoopStep(t, r))
       => \A u \in DOMAIN table \ DOMAIN table' : Expired(table[u], utcnow)]_vars

(***************************************************************************)
(* cleanup_expired run by one task while no other call of the cache is in  *)
(* progress (SpecSweep); hours may pass between its statements.  The ghost *)
(* variable removal holds the table and the hour at the SELECT of the last *)
(* cleanup and, in the state a cleanup has just returned in, its return    *)
(* value.                                                                  *)
(***************************************************************************)
NoSweep == [start |-> EmptyDict, at |-> 0, ret |-> None]

SweepCacheInit == CacheInitStep /\ removal' = [removal EXCEPT !.ret = None]

SweepSet(url, ttl_hours) ==
    /\ AllIdle
    /\ CacheSetStep(url, "md", None, ttl_hours)
    /\ removal' = [removal EXCEPT !.ret = None]

SweepSelect ==
    /\ CleanupSelectStep("t1")
    /\ removal' = [start |-> table, at |-> utcnow, ret |-> None]

SweepLoop(r) == CleanupLoopStep("t1", r) /\ removal' = [removal EXCEPT !.ret = None]

SweepReturn ==
    /\ CleanupReturnStep("t1")
    /\ removal' = [removal EXCEPT !.ret = Some(cpc["t1"].removed)]

SweepHourPasses == HourPassesStep /\ removal' = [removal EXCEPT !.ret = None]

NextSweep ==
    \/ SweepCacheInit
    \/ \E u \in CacheUrls, ttl \in Ttls : SweepSet(u, ttl)
    \/ SweepSelect
    \/ \E r \in cpc["t1"].rows : SweepLoop(r)
    \/ SweepReturn
    \/ SweepHourPasses

\* the urls whose records a cleanup that has just returned deleted
Swept == DOMAIN removal.start \ DOMAIN table

\* the age in hours of a row at hour t
AgeOf(row, t) == t - FromIsoFormat(row.created_at)

CacheTtlZeroBypass ==
    got # None =>
        LET g == got[1] IN
        (g.expect # None /\ g.expect[1].ttl_hours = 0) => g.result = None


(***************************************************************************)
(* AsyncWebCrawler: arun and arun_many.  The network tiers are modelled by *)
(* the path a fetch takes through them and by its outcome (ArunCrawl), or  *)
(* by what each tier meets on the network (ArunTiers).                     *)
(***************************************************************************)
CacheModes == {"bypass", "cached", "write_only", "read_only"}

\* the fields of CrawlerConfig that arun reads before and after the tiers;
\* nodriver stands for the condition of crawler.py line 133
FetchConfigs ==
    [cache_mode : CacheModes, cache_ttl_hours : Ttls, http_first : BOOLEAN,
     nodriver : BOOLEAN]

\* config.py line 223
DefaultCacheTtlHours == 24

\* CrawlerConfig(), config.py lines 219-251
DefaultCrawlerConfig ==
    [cache_mode |-> "cached", cache_ttl_hours |-> DefaultCacheTtlHours,
     http_first |-> FALSE, nodriver |-> FALSE]

\* the crawler_config argument of the constructor: omitted, or one of these
CtorConfigs ==
    {None} \cup {Some([DefaultCrawlerConfig EXCEPT !.cache_mode = m, !.cache_ttl_hours = h]) :
                     m \in CacheModes, h \in {MaxTtl}}

\* the config argument of arun
CallConfigs == {None} \cup {Some(c) : c \in FetchConfigs}

\* the urls handed to arun: one that validates and the empty string
FetchUrls == {Url("https", "a.test", "/", ""), EmptyUrl}

\* the markdown of a fetched page
Markdowns == {None, Some("md")}

\* utils/url.py validate_url, on the urls of the model
ValidateUrl(u) == u.host # "" /\ (u.scheme # "" => u.scheme \in {"http", "https"})

\* crawler.py line 50
HasCache(crawler_config) ==
    crawler_config # None /\ crawler_config[1].cache_mode # "bypass"

\* crawler.py line 48
CrawlerConfigOf(crawler_config) ==
    IF crawler_config # None THEN crawler_config[1] ELSE DefaultCrawlerConfig

\* a read gate that lets every mode read
CacheReadAllowedAny(cache_mode) == TRUE

\* crawler.py line 96
CacheReadAllowed(cache_mode) == cache_mode \in {"cached", "read_only"}

\* crawler.py line 146
CacheWriteAllowed(cache_mode) == cache_mode \in {"cached", "write_only"}

\* the paths through the tiers of lines 116-141 and what each tier touches:
\* the GET of _http_fetch, the HEAD of quick_cloudflare_check, a browser
\* page, the undetected browser
TierPaths == {"http", "nodriver", "page", "page_nodriver", "error"}

NoCrawlResult ==
    [success |-> FALSE, cached |-> FALSE, status_code |-> 0, markdown |-> None,
     error_type |-> ""]

\* lines 101-113
CachedResult(cached) ==
    [success |-> TRUE, cached |-> TRUE, status_code |-> 200,
     markdown |-> Some(cached.content), error_type |-> ""]

\* the metadata of lines 150-155
ResultMetadata(result) ==
    Some([k \in {"title", "description", "status_code", "links"} |->
              IF k = "status_code" THEN result.status_code ELSE k])

IdleCall ==
    [phase |-> "idle", url |-> EmptyUrl, config |-> DefaultCrawlerConfig, reads |-> 0,
     writes |-> 0, net |-> {}, live |-> None, canon |-> {}, result |-> NoCrawlResult]

\* no tier has been asked anything
NoTiers == [get |-> None, head |-> None, page |-> None, undetected |-> None]

\* no arun_many call has been made
IdleMany ==
    [phase |-> "idle", urls |-> <<>>, permits |-> 0, state |-> <<>>, outcome |-> <<>>,
     slot |-> 0, returned |-> <<>>]

\* the content of the live record of url, if the table has one
LiveContent(rows, url, t) ==
    IF url \in DOMAIN rows /\ t - FromIsoFormat(rows[url].created_at) <= rows[url].ttl_hours
    THEN Some(rows[url].content)
    ELSE None

\* the contents of the live records whose key has the canonical form of url
CanonContents(rows, url, t) ==
    {rows[k].content :
        k \in {j \in DOMAIN rows :
                  /\ NormalizeUrl(j, FALSE) = NormalizeUrl(url, FALSE)
                  /\ t - FromIsoFormat(rows[j].created_at) <= rows[j].ttl_hours}}

\* AsyncWebCrawler.__init__, lines 47-51
CrawlerNew(crawler_config) ==
    /\ crawler = [crawler_config |-> CrawlerConfigOf(crawler_config),
                  has_cache |-> HasCache(crawler_config), initialized |-> FALSE]
    /\ fcall = IdleCall
    /\ aruns = 0
    /\ tiers = NoTiers
    /\ many = IdleMany

\* where an I/O error may strike cache.get: nowhere, at the SELECT of lines
\* 59-63, or at the UPDATE and commit of lines 77-81
GetFaults == {"none", "select", "update"}

\* arun, lines 81-113: start, validation, the cache read and the return of a
\* hit.  cache.get runs as in GetSelect and GetFinish; an error raised inside
\* it leaves get and, the call of line 97 standing outside the try of line
\* 116, leaves arun.
ArunStep(url, config, fault) ==
    /\ fcall.phase \in {"idle", "done", "raised"}
    /\ aruns' = aruns + 1
    /\ crawler' = [crawler EXCEPT !.initialized = TRUE]
    /\ db_open' = (db_open \/ (~crawler.initialized /\ crawler.has_cache
                                  /\ crawler.crawler_config.cache_mode # "bypass"))
    /\ LET cfg == IF config # None THEN config[1] ELSE crawler.crawler_config
           call == [IdleCall EXCEPT !.url = url, !.config = cfg,
                                    !.live = LiveContent(table, url, utcnow),
                                    !.canon = CanonContents(table, url, utcnow)]
           reads == crawler.has_cache /\ CacheReadAllowed(cfg.cache_mode)
           row == IF reads /\ db_open' THEN SelectRow(table, url) ELSE None
       IN  /\ fault # "none" => ValidateUrl(url) /\ reads /\ db_open'
           /\ fault = "update" => row # None /\ ~Expired(row[1], utcnow)
           /\ IF ~ValidateUrl(url)
              THEN /\ fcall' = [call EXCEPT !.phase = "done",
                                            !.result.error_type = "ValidationError"]
                   /\ UNCHANGED <<table, fresh>>
              ELSE IF fault # "none"
              THEN /\ fcall' = [call EXCEPT !.phase = "raised", !.reads = 1]
                   /\ UNCHANGED <<table, fresh>>
              ELSE IF row = None
              THEN /\ fcall' = [call EXCEPT !.phase = "crawl",
                                            !.reads = IF reads THEN 1 ELSE 0]
                   /\ UNCHANGED <<table, fresh>>
              ELSE IF Expired(row[1], utcnow)
              THEN /\ fcall' = [call EXCEPT !.phase = "crawl", !.reads = 1]
                   /\ table' = DictDel(table, url)
                   /\ fresh' = [fresh EXCEPT ![url] = None]
              ELSE /\ fcall' = [call EXCEPT !.phase = "done", !.reads = 1,
                                            !.result = CachedResult(CacheRecord(url, row[1]))]
                   /\ table' = TouchRow(table, url, utcnow)
                   /\ UNCHANGED fresh
    /\ got' = None
    /\ tiers' = NoTiers
    /\ UNCHANGED <<utcnow, cpc, calls>>
    /\ UNCHANGED notFetch

\* an arun call whose cache read meets no I/O error
Arun(url, config) ==
    /\ aruns < MaxFetches
    /\ fcall.phase # "raised"
    /\ ArunStep(url, config, "none")
    /\ UNCHANGED many

\* the tiers a path goes through
TiersOf(path, cfg) ==
    (IF cfg.http_first THEN {"get"} ELSE {})
    \cup (IF path # "http" /\ cfg.nodriver THEN {"head"} ELSE {})
    \cup (IF path \in {"page", "page_nodriver", "error"} THEN {"page"} ELSE {})
    \cup (IF path \in {"nodriver", "page_nodriver"} THEN {"undetected"} ELSE {})

\* arun, lines 116-169: the tiers, the cache write and the return.  An error
\* raised by cache.set (set_fails) is caught at line 161 with every other
\* exception of the try and makes the failure result of lines 163-169.
ArunFinish(path, result, set_fails) ==
    /\ fcall.phase = "crawl"
    /\ LET cfg == fcall.config
           saves == /\ path \in {"http", "page", "page_nodriver"}
                    /\ crawler.has_cache
                    /\ result.success
                    /\ CacheWriteAllowed(cfg.cache_mode)
           content == IF result.markdown # None THEN result.markdown[1] ELSE ""
           caught == [NoCrawlResult EXCEPT !.error_type = "OperationalError"]
       IN  /\ set_fails => saves /\ db_open
           /\ fcall' = [fcall EXCEPT !.phase = "done",
                                     !.result = IF set_fails THEN caught ELSE result,
                                     !.net = TiersOf(path, cfg),
                                     !.writes = IF saves THEN 1 ELSE 0]
           /\ IF saves /\ db_open /\ ~set_fails
              THEN /\ table' = DictSet(table, fcall.url,
                                       CacheRow(content, ResultMetadata(result),
                                                cfg.cache_ttl_hours, utcnow))
                   /\ fresh' = [fresh EXCEPT
                                   ![fcall.url] =
                                       Some([content |-> content,
                                             metadata |-> ResultMetadata(result),
                                             ttl_hours |-> cfg.cache_ttl_hours,
                                             at |-> utcnow])]
              ELSE UNCHANGED <<table, fresh>>
    /\ got' = None
    /\ UNCHANGED <<crawler, aruns>>
    /\ UNCHANGED <<db_open, utcnow, cpc, calls>>
    /\ UNCHANGED notFetch

\* the result of a tier that answered 200, or of one that failed
TierResult(ok, markdown) ==
    [success |-> ok, cached |-> FALSE,
     status_code |-> IF ok THEN 200 ELSE 0,
     markdown |-> IF ok THEN markdown ELSE None,
     error_type |-> IF ok THEN "" ELSE "Error"]

\* arun, lines 116-169, by the path taken and whether its last tier
\* succeeded
ArunCrawlStep(path, ok, markdown, set_fails) ==
    /\ path = "http" => fcall.config.http_first /\ ok
    /\ path = "nodriver" => fcall.config.nodriver
    /\ path = "error" => ~ok
    /\ ArunFinish(path, TierResult(ok, markdown), set_fails)

\* the tiers of an arun call, by the path taken; the cache write succeeds
ArunCrawl(path, ok, markdown) ==
    /\ many.slot = 0
    /\ ArunCrawlStep(path, ok, markdown, FALSE)
    /\ UNCHANGED <<tiers, many>>

\* close, lines 199-203
CrawlerClose ==
    /\ fcall.phase \in {"idle", "done"}
    /\ crawler.initialized
    /\ crawler' = [crawler EXCEPT !.initialized = FALSE]
    /\ UNCHANGED <<fcall, aruns, tiers, many>>
    /\ UNCHANGED cacheVars
    /\ UNCHANGED notFetch

NextFetch ==
    \/ \E u \in FetchUrls, c \in CallConfigs : Arun(u, c)
    \/ \E path \in TierPaths, ok \in BOOLEAN, md \in Markdowns : ArunCrawl(path, ok, md)
    \/ CrawlerClose
    \/ HourPasses

\* the html a GET answers with: the empty string, a document without a body
\* element, bodies of 99 and of 100 text characters, bodies of 500 and of 501
\* text characters that carry id="root", and a body of 100 text characters
\* with a noscript element asking for javascript
HtmlBodies == {"", "nobody", "short", "text", "spa", "spa_long", "noscript"}

\* tree.find(".//body") is not None (line 278)
HasBodyElement(html) == html \notin {"", "nobody"}

\* len(body.text_content().strip()) (line 284)
TextLength(html) ==
    CASE html = "short" -> 99
      [] html \in {"text", "noscript"} -> 100
      [] html = "spa" -> 500
      [] html = "spa_long" -> 501
      [] OTHER -> 0

\* one of the spa_indicators is in the html (lines 291-301)
HasSpaIndicator(html) == html \in {"spa", "spa_long"}

\* the noscript test of lines 310-314
NoscriptAsksJavascript(html) == html = "noscript"

\* _needs_browser, lines 264-320
NeedsBrowser(html) ==
    IF html = "" THEN TRUE
    ELSE IF ~HasBodyElement(html) THEN TRUE
    ELSE IF TextLength(html) < 100 THEN TRUE
    ELSE IF HasSpaIndicator(html) THEN ~(TextLength(html) > 500)
    ELSE NoscriptAsksJavascript(html)

\* what _needs_browser reads of an html text: whether it is empty, whether
\* lxml parses it, whether it has a body element and how long the stripped
\* text of the body is, whether one of the spa_indicators occurs in it, and
\* the first noscript element: how long its stripped text is (0 when there
\* is none) and whether the text holds "javascript"
HtmlTexts ==
    [empty : BOOLEAN, parses : BOOLEAN, body : BOOLEAN,
     text : {0, 99, 100, 499, 500, 501},
     spa : BOOLEAN, noscript : {0, 50, 51}, javascript : BOOLEAN]

\* _needs_browser, lines 273-319, on such a text
needs_browser(html) ==
    IF html.empty THEN TRUE
    ELSE IF ~html.parses THEN TRUE
    ELSE IF ~html.body THEN TRUE
    ELSE IF html.text < 100 THEN TRUE
    ELSE IF html.spa THEN (IF html.text > 500 THEN FALSE ELSE TRUE)
    ELSE IF html.noscript > 50 /\ html.javascript THEN TRUE
    ELSE FALSE

\* no call of _needs_browser has been made on the text
NoNeedsCall(html) == [html |-> html, needs |-> None]

\* _needs_browser(html)
CallNeedsBrowser ==
    /\ ucall.needs = None
    /\ ucall' = [ucall EXCEPT !.needs = Some(needs_browser(ucall.html))]
    /\ UNCHANGED differ
    /\ UNCHANGED notUtil

NextNeeds == CallNeedsBrowser

\* C37: on a body that parses and has a body element, _needs_browser is true
\* exactly when the body text is shorter than 100 characters, or an SPA
\* marker is present and the body text is shorter than 500 characters, or a
\* noscript block longer than 50 characters mentions javascript.
NeedsBrowserIff ==
    (/\ ucall.needs # None
     /\ ~ucall.html.empty /\ ucall.html.parses /\ ucall.html.body)
    => (ucall.needs[1]
           <=> \/ ucall.html.text < 100
               \/ ucall.html.spa /\ ucall.html.text < 500
               \/ ucall.html.noscript > 50 /\ ucall.html.javascript)

\* what the GET of _http_fetch meets: a response with its status and body
\* (200 with any body, 404 with a page of text), or none (status 0: a timeout
\* or another error)
GetAnswers ==
    {[status |-> 200, html |-> b] : b \in HtmlBodies}
    \cup {[status |-> 404, html |-> "text"], [status |-> 0, html |-> ""]}

\* an _http_fetch that makes a result of whatever came back
HttpFetchAnyStatus(get) == Some([success |-> TRUE, html |-> get.html])

\* _http_fetch, lines 205-262: None unless the response has status 200
HttpFetch(get) ==
    IF get.status # 200 THEN None ELSE Some([success |-> TRUE, html |-> get.html])

\* what the HEAD of quick_cloudflare_check meets: status and the headers it
\* looks at, or no response (status 0)
HeadAnswers ==
    {[status |-> 403, cf_mitigated |-> "challenge", server |-> "", cf_ray |-> FALSE],
     [status |-> 403, cf_mitigated |-> "", server |-> "", cf_ray |-> FALSE],
     [status |-> 503, cf_mitigated |-> "", server |-> "cloudflare", cf_ray |-> FALSE],
     [status |-> 403, cf_mitigated |-> "", server |-> "cloudflare", cf_ray |-> TRUE],
     [status |-> 200, cf_mitigated |-> "", server |-> "cloudflare", cf_ray |-> TRUE],
     [status |-> 0, cf_mitigated |-> "", server |-> "", cf_ray |-> FALSE]}

\* browser/cloudflare.py is_cloudflare_blocked_response
IsCloudflareBlockedResponse(head) ==
    \/ head.status = 403 /\ head.cf_mitigated = "challenge"
    \/ head.status = 503 /\ head.server = "cloudflare"

\* a probe that never finds a challenge
QuickCloudflareCheckNever(head) == FALSE

\* browser/cloudflare.py quick_cloudflare_check
QuickCloudflareCheck(head) ==
    IF head.status = 0 THEN FALSE
    ELSE \/ IsCloudflareBlockedResponse(head)
         \/ head.server = "cloudflare" /\ head.cf_ray /\ head.status \in {403, 503}

\* what _crawl_page meets: a page it makes a result of, a page it fails on, a
\* challenge it finds itself blocked by (line 450), an exception
PageAnswers == {"ok", "failed", "blocked", "raise"}

\* what fetch_with_nodriver returns: html, or an error
UndetectedAnswers == {"ok", "error"}

\* lines 116-141: the path of a call through the tiers, whether its result is
\* a success, and the tiers it asked, from what each tier meets
TierRun(cfg, get, head, page, undetected) ==
    LET http == IF cfg.http_first THEN HttpFetch(get) ELSE None
        kept == http # None /\ http[1].success /\ ~NeedsBrowser(http[1].html)
        probed == ~kept /\ cfg.nodriver
        guarded == probed /\ QuickCloudflareCheck(head)
        paged == ~kept /\ ~guarded
        fallback == paged /\ page = "blocked" /\ cfg.nodriver
        path == IF kept THEN "http"
                ELSE IF guarded THEN "nodriver"
                ELSE IF page = "raise" THEN "error"
                ELSE IF fallback THEN "page_nodriver"
                ELSE "page"
    IN  [path |-> path,
         ok |-> CASE path = "http" -> TRUE
                  [] path \in {"nodriver", "page_nodriver"} -> undetected = "ok"
                  [] path = "page" -> page = "ok"
                  [] OTHER -> FALSE,
         asked |-> [get |-> IF cfg.http_first THEN Some(get) ELSE None,
                    head |-> IF probed THEN Some(head) ELSE None,
                    page |-> IF paged THEN Some(page) ELSE None,
                    undetected |-> IF guarded \/ fallback THEN Some(undetected) ELSE None]]

\* arun, lines 116-169, by what the tiers and the cache write meet
ArunTiers(get, head, page, undetected, markdown, set_fails) ==
    LET run == TierRun(fcall.config, get, head, page, undetected)
    IN  /\ many.slot = 0
        /\ ArunCrawlStep(run.path, run.ok, markdown, set_fails)
        /\ tiers' = run.asked
        /\ UNCHANGED many

\* an arun call with the crawler's own config, whose cache read may fail
ArunFaulty(url, fault) ==
    /\ aruns < MaxFetches
    /\ ArunStep(url, None, fault)
    /\ UNCHANGED many

NextTiers ==
    \/ \E u \in FetchUrls, fault \in GetFaults : ArunFaulty(u, fault)
    \/ \E get \in GetAnswers, head \in HeadAnswers, page \in PageAnswers,
          undetected \in UndetectedAnswers, md \in Markdowns, set_fails \in BOOLEAN :
           ArunTiers(get, head, page, undetected, md, set_fails)
    \/ HourPasses

\* what page.goto of _crawl_page, lines 434-438, does: a response with a
\* status, no response, an exception (a refused connection, a timeout)
GotoAnswers == {"goto_200", "goto_404", "goto_none", "goto_raised", "goto_timeout"}

\* the gotos that raise
GotoRaises == {"goto_raised", "goto_timeout"}

\* _crawl_page, lines 433-442: the status code the navigation leaves, None
\* (0) with no response and, the exception being logged at line 441 and
\* dropped, after a navigation that raised
StatusOfGoto(goto) ==
    CASE goto = "goto_200" -> 200
      [] goto = "goto_404" -> 404
      [] OTHER -> 0

\* what the challenge check of lines 445-449 sees on the page
ChallengeAnswers == {"clear", "blocked"}

\* _crawl_page, lines 480-501: the result made of the page, whose success is
\* the default of the CrawlResult model (True)
PageResult(goto, markdown) ==
    [success |-> TRUE, cached |-> FALSE, status_code |-> StatusOfGoto(goto),
     markdown |-> markdown, error_type |-> ""]

\* _crawl_page, lines 454-462: the result of a page that stays blocked
BlockedResult ==
    [success |-> FALSE, cached |-> FALSE, status_code |-> 403, markdown |-> None,
     error_type |-> "CloudflareBlocked"]

\* _nodriver_fallback, lines 684-731
NodriverResult(undetected, markdown) ==
    [success |-> undetected = "ok", cached |-> FALSE,
     status_code |-> IF undetected = "ok" THEN 200 ELSE 0,
     markdown |-> IF undetected = "ok" THEN markdown ELSE None,
     error_type |-> IF undetected = "ok" THEN "" ELSE "NodriverError"]

\* the path and the result of _crawl_page, lines 414-501, by what the
\* navigation does, what the challenge check sees and whether a later step
\* of the page (lines 465-477) raises
CrawlPage(cfg, goto, challenge, undetected, later_raises, markdown) ==
    IF challenge = "blocked" /\ cfg.nodriver
    THEN [path |-> "page_nodriver", result |-> NodriverResult(undetected, markdown)]
    ELSE IF challenge = "blocked"
    THEN [path |-> "page", result |-> BlockedResult]
    ELSE IF later_raises
    THEN [path |-> "error", result |-> TierResult(FALSE, None)]
    ELSE [path |-> "page", result |-> PageResult(goto, markdown)]

\* arun, lines 116-169, of a call that goes to the rendered tier (line 139),
\* by what the page meets
ArunNavigate(goto, challenge, undetected, later_raises, markdown) ==
    LET run == CrawlPage(fcall.config, goto, challenge, undetected, later_raises,
                         markdown)
    IN  /\ many.slot = 0
        /\ ~fcall.config.http_first
        /\ ArunFinish(run.path, run.result, FALSE)
        /\ tiers' = [NoTiers EXCEPT !.page = Some(goto)]
        /\ UNCHANGED many

NextNavigation ==
    \/ \E u \in FetchUrls : ArunFaulty(u, "none")
    \/ \E goto \in GotoAnswers, challenge \in ChallengeAnswers,
          undetected \in UndetectedAnswers, later_raises \in BOOLEAN, md \in Markdowns :
           ArunNavigate(goto, challenge, undetected, later_raises, md)
    \/ HourPasses

\* C32: a fetch whose rendered tier met a navigation that raised returns an
\* unsuccessful result that names the kind of the error.
NavigationSurfaced ==
    (/\ fcall.phase = "done"
     /\ tiers.page # None
     /\ tiers.page[1] \in GotoRaises)
    => /\ ~fcall.result.success
       /\ fcall.result.error_type # ""

\* arun_many, lines 187-197, up to the call of gather
ArunMany(urls, max_concurrent) ==
    /\ many.phase = "idle"
    /\ fcall.phase = "idle"
    /\ many' = [phase |-> "running", urls |-> urls, permits |-> max_concurrent,
                state |-> [i \in 1..Len(urls) |-> "new"],
                outcome |-> [i \in 1..Len(urls) |-> None],
                slot |-> 0, returned |-> <<>>]
    /\ crawler' = [crawler EXCEPT !.initialized = TRUE]
    /\ db_open' = (db_open \/ (~crawler.initialized /\ crawler.has_cache
                                  /\ crawler.crawler_config.cache_mode # "bypass"))
    /\ UNCHANGED <<table, utcnow, cpc, fresh, got, calls>>
    /\ UNCHANGED <<fcall, aruns, tiers>>
    /\ UNCHANGED notFetch

\* sem_run up to its first suspension, lines 192-193: gather starts the
\* wrappers in list order; one that finds no free permit waits in line
SemRun(i) ==
    /\ many.phase \in {"running", "raised"}
    /\ i \in 1..Len(many.urls)
    /\ many.state[i] = "new"
    /\ \A j \in 1..(i - 1) : many.state[j] # "new"
    /\ many' = IF many.permits > 0
               THEN [many EXCEPT !.state[i] = "running", !.permits = @ - 1]
               ELSE [many EXCEPT !.state[i] = "queued"]
    /\ UNCHANGED <<crawler, fcall, aruns, tiers>>
    /\ UNCHANGED cacheVars
    /\ UNCHANGED notFetch

\* the end of sem_run i with the arun call `call`: its result or exception
\* is what gather holds for i, the semaphore passes its permit to the first
\* sem_run in line, and gather, called with return_exceptions=False (line
\* 197), ends arun_many with the first exception
SemRunOver(m, i, call) ==
    LET queued == {j \in 1..Len(m.urls) : m.state[j] = "queued"}
        next == IF queued = {} THEN 0 ELSE CHOOSE j \in queued : \A k \in queued : j <= k
        raised == call.phase = "raised"
    IN  [m EXCEPT !.slot = 0,
                  !.outcome[i] = Some([url |-> call.url, raised |-> raised,
                                       result |-> call.result]),
                  !.state = [j \in 1..Len(m.urls) |->
                                IF j = i THEN "done"
                                ELSE IF j = next THEN "running"
                                ELSE m.state[j]],
                  !.permits = IF next = 0 THEN @ + 1 ELSE @,
                  !.phase = IF raised /\ @ = "running" THEN "raised" ELSE @]

\* the arun call of sem_run i, line 194, up to its cache read; the arun calls
\* of one arun_many run one after another
ManyArun(i, fault) ==
    /\ many.phase \in {"running", "raised"}
    /\ i \in 1..Len(many.urls)
    /\ many.state[i] = "running"
    /\ many.slot = 0
    /\ ArunStep(many.urls[i], None, fault)
    /\ many' = IF fcall'.phase = "crawl"
               THEN [many EXCEPT !.slot = i]
               ELSE SemRunOver(many, i, fcall')

\* the tiers and the cache write of the arun call of a sem_run
ManyArunCrawl(path, ok, markdown, set_fails) ==
    /\ many.slot # 0
    /\ ArunCrawlStep(path, ok, markdown, set_fails)
    /\ many' = SemRunOver(many, many.slot, fcall')
    /\ UNCHANGED tiers

\* line 197: gather returns what it holds, by position
ArunManyReturn ==
    /\ many.phase = "running"
    /\ \A i \in 1..Len(many.urls) : many.state[i] = "done"
    /\ many' = [many EXCEPT !.phase = "returned",
                            !.returned = [i \in 1..Len(many.urls) |-> many.outcome[i][1]]]
    /\ UNCHANGED <<crawler, fcall, aruns, tiers>>
    /\ UNCHANGED cacheVars
    /\ UNCHANGED notFetch

NextMany ==
    \/ \E urls \in SeqsUpTo(MaxManyUrls, FetchUrls), n \in 1..MaxConcurrent :
           ArunMany(urls, n)
    \/ \E i \in 1..MaxManyUrls : SemRun(i)
    \/ \E i \in 1..MaxManyUrls, fault \in GetFaults : ManyArun(i, fault)
    \/ \E path \in TierPaths, ok \in BOOLEAN, md \in Markdowns, set_fails \in BOOLEAN :
           ManyArunCrawl(path, ok, md, set_fails)
    \/ ArunManyReturn

\* the spellings of one page's url handed to arun: canonical, with an
\* upper-case host, with a fragment
KeyUrls == {Seed, Url("https", "A.test", "/", ""), Url("https", "a.test", "/", "top")}

\* an arun call with the crawler's own config, in a run of several
ArunKeyed(url) ==
    /\ aruns < MaxKeyFetches
    /\ fcall.phase # "raised"
    /\ ArunStep(url, None, "none")
    /\ UNCHANGED many

NextKeys ==
    \/ \E u \in KeyUrls : ArunKeyed(u)
    \/ \E path \in TierPaths, ok \in BOOLEAN, md \in Markdowns : ArunCrawl(path, ok, md)
    \/ HourPasses


(***************************************************************************)
(* Claims about the fetch pipeline (SpecFetch, SpecKeys, SpecTiers,        *)
(* SpecMany).                                                              *)
(***************************************************************************)
\* C9: a fetch calls cache.get only when its effective cache mode is cached
\* or read_only and calls cache.set only when it is cached or write_only; a
\* write_only fetch of a valid url returns a result that is not from the
\* cache and has gone to the network tiers, whatever the table holds.
FetchGating ==
    /\ fcall.reads > 0 => fcall.config.cache_mode \in {"cached", "read_only"}
    /\ fcall.writes > 0 => fcall.config.cache_mode \in {"cached", "write_only"}
    /\ (fcall.phase = "done" /\ fcall.config.cache_mode = "write_only"
           /\ ValidateUrl(fcall.url))
       => ~fcall.result.cached /\ fcall.net # {}

\* C9 witness: a write_only fetch by a crawler that has a cache, of a url
\* with a live record, did not read the cache, fetched from the network and
\* wrote its result.
FetchGatingWitness ==
    /\ fcall.phase = "done"
    /\ crawler.has_cache
    /\ fcall.config.cache_mode = "write_only"
    /\ fcall.live # None
    /\ fcall.reads = 0
    /\ fcall.writes = 1
    /\ fcall.result.success
    /\ ~fcall.result.cached

\* C10: a fetch in mode cached of a url that has a live record when the fetch
\* is called touches no network tier and returns cached = true, status 200,
\* success = true and the stored content as markdown.
FetchCachedHit ==
    (fcall.phase = "done" /\ fcall.config.cache_mode = "cached" /\ fcall.live # None)
    => /\ fcall.net = {}
       /\ fcall.result.cached
       /\ fcall.result.status_code = 200
       /\ fcall.result.success
       /\ fcall.result.markdown = fcall.live

\* C11: the cache records of the fetch pipeline are keyed by the canonical
\* url: every record a fetch wrote has a canonical key, and a fetch in mode
\* cached of a url that has a live record under a key of the same canonical
\* form when the fetch is called returns that record.
FetchKeysCanonical ==
    /\ \A k \in DOMAIN table : k = NormalizeUrl(k, FALSE)
    /\ (fcall.phase = "done" /\ fcall.config.cache_mode = "cached" /\ fcall.canon # {})
       => /\ fcall.result.cached
          /\ fcall.result.markdown # None
          /\ fcall.result.markdown[1] \in fcall.canon

\* C12: a failure of the cache read of a fetch is not fatal: no arun call
\* that called cache.get ends by raising.
FetchReadFailureTolerated ==
    ~(fcall.phase = "raised" /\ fcall.reads > 0)

\* C13: a fetch that succeeded on the network and called cache.set returns
\* its successful result, whatever became of the write.
FetchWriteFailureTolerated ==
    (fcall.phase = "done" /\ fcall.writes > 0)
    => fcall.result.success /\ fcall.result.status_code = 200

\* C14: arun_many does not end by raising, and the list it returns has, at
\* the position of every input url, the result of the arun call of that url.
FetchManyPackaged ==
    /\ many.phase # "raised"
    /\ many.phase = "returned"
       => /\ Len(many.returned) = Len(many.urls)
          /\ \A i \in 1..Len(many.urls) :
                 /\ many.returned[i].url = many.urls[i]
                 /\ many.returned[i] = many.outcome[i][1]

\* C15: a fetch that went to the network tiers had a turn from the rate
\* limiter for the full host of its url: the limiter has a last request for
\* that host.
FetchOriginGate ==
    (fcall.phase = "done" /\ fcall.net # {})
    => GetFullHost(fcall.url) \in DOMAIN last_request

\* C17: with http_first, a fetch returns the result of the HTTP tier exactly
\* when the GET answered 200 with a body that does not need a browser; after
\* any other answer (another status, no response, a body that needs a
\* browser, among them every body of fewer than 100 text characters) it has
\* gone on to a browser tier.
HttpFirstAbandon ==
    (fcall.phase = "done" /\ tiers.get # None)
    => LET get == tiers.get[1]
           kept == get.status = 200 /\ ~NeedsBrowser(get.html)
           browser == fcall.net \cap {"page", "undetected"} # {}
       IN  /\ fcall.config.http_first
           /\ kept <=> fcall.net = {"get"}
           /\ ~kept => browser
           /\ (get.status # 200 \/ TextLength(get.html) < 100) => browser

\* C17 witness: a GET answered 200 with a body of 99 text characters, and
\* the fetch went on to a browser page and returned its result.
HttpFirstAbandonWitness ==
    /\ fcall.phase = "done"
    /\ tiers.get = Some([status |-> 200, html |-> "short"])
    /\ "page" \in fcall.net
    /\ tiers.page = Some("ok")
    /\ fcall.result.success

\* C18: when the probe before the browser is armed and its HEAD classifies
\* the origin as challenge-guarded, the fetch asks no ordinary page and goes
\* to the undetected browser.
ProbeSkipsPage ==
    (fcall.phase = "done" /\ tiers.head # None)
    => LET head == tiers.head[1]
           guarded == \/ head.status = 403 /\ head.cf_mitigated = "challenge"
                      \/ head.status = 503 /\ head.server = "cloudflare"
                      \/ head.status \in {403, 503} /\ head.cf_ray /\ head.server = "cloudflare"
       IN  /\ fcall.config.nodriver
           /\ guarded => /\ tiers.page = None
                         /\ "page" \notin fcall.net
                         /\ tiers.undetected # None
                         /\ "undetected" \in fcall.net

\* C18 witness: the HEAD answered 403 with cf-mitigated: challenge, and the
\* fetch returned the result of the undetected browser without a page.
ProbeSkipsPageWitness ==
    /\ fcall.phase = "done"
    /\ tiers.head # None
    /\ tiers.head[1].status = 403
    /\ tiers.head[1].cf_mitigated = "challenge"
    /\ tiers.page = None
    /\ tiers.undetected = Some("ok")
    /\ fcall.result.success

\* C31: a fetch that returns a fresh success under a cache mode that allows
\* writing, by a crawler that has an open cache, has upserted the record of
\* its url with the markdown (the empty string when the result has none) and
\* the metadata of the result, whichever tier produced the result.
FetchSuccessWritten ==
    (/\ fcall.phase = "done"
     /\ fcall.result.success
     /\ ~fcall.result.cached
     /\ crawler.has_cache
     /\ db_open
     /\ fcall.config.cache_mode \in {"cached", "write_only"})
    => /\ fcall.writes = 1
       /\ fcall.url \in DOMAIN table
       /\ table[fcall.url].content =
             (IF fcall.result.markdown # None THEN fcall.result.markdown[1] ELSE "")
       /\ table[fcall.url].metadata = MetadataJson(ResultMetadata(fcall.result))


(***************************************************************************)
(* LightweightLinkMapper (discovery/lightweight_mapper.py): sitemap first, *)
(* then a breadth-first crawl over plain HTTP, then a browser pass over    *)
(* the pages that looked script-rendered.                                  *)
(***************************************************************************)
\* the constructor defaults of lines 29-35
DefaultLightConfig ==
    [max_depth |-> 2, max_pages |-> 100, include_external |-> FALSE,
     same_host_only |-> TRUE, max_concurrent |-> 10, use_sitemap |-> TRUE]

LightConfigs ==
    [max_depth : 0..MaxDepth, max_pages : 0..MaxPages,
     include_external : BOOLEAN, same_host_only : BOOLEAN,
     max_concurrent : {MaxConcurrent}, use_sitemap : BOOLEAN]

\* __init__, lines 48-62
LightNew(cfg) ==
    light = [cfg |-> cfg, start_url |-> EmptyUrl, start_host |-> "", phase |-> "new",
             nodes |-> <<>>, visited |-> {}, current_depth |-> 0, wave |-> <<>>,
             pages_crawled |-> 0, js |-> {}, todo |-> {}, sitemap |-> FALSE]

\* urlparse(url).netloc: the host as written
Netloc(u) == u.host

\* the <loc> entries a sitemap of the seed's site may list
SitemapLocs ==
    { Seed, Url("https", "a.test", "/p", ""), Url("https", "docs.a.test", "/p", "") }

Distinct(s) == \A i, j \in 1..Len(s) : i # j => s[i] # s[j]

\* sitemap.py SitemapParser.get_urls (lines 42-79) with _parse_sitemap's host
\* filter (lines 199-203): None, or the distinct urls kept, in the order of a
\* set, cut to max_urls (the mapper passes max_pages)
SitemapGetUrls(base_url, cfg) ==
    LET kept == {loc \in SitemapLocs :
                    cfg.same_host_only => Netloc(loc) = Netloc(base_url)}
    IN  {None} \cup
        {Some(s) : s \in {t \in SeqsUpTo(Min2(cfg.max_pages, Cardinality(kept)), kept) :
                              t # <<>> /\ Distinct(t)}}

RECURSIVE WithoutUrl(_, _)
WithoutUrl(urls, url) ==
    IF urls = <<>> THEN <<>>
    ELSE IF Head(urls) = url THEN WithoutUrl(Tail(urls), url)
    ELSE <<Head(urls)>> \o WithoutUrl(Tail(urls), url)

\* _urls_to_link_tree, lines 130-155: the nodes of the tree, root first
UrlsToLinkTree(urls, root_url, cfg) ==
    LET all == IF root_url \in Range(urls) THEN urls ELSE <<root_url>> \o urls
        cut == SubSeq(all, 1, Min2(Len(all), cfg.max_pages))
        kids == WithoutUrl(cut, root_url)
        root == [LinkNode(root_url, 0, EmptyUrl, NoParent, TRUE)
                    EXCEPT !.children = [k \in 1..Len(kids) |-> 1 + k]]
    IN  <<root>> \o [k \in 1..Len(kids) |-> LinkNode(kids[k], 1, root_url, 1, TRUE)]

\* _needs_javascript, lines 377-413, on the pages of HtmlBodies
NeedsJavascript(html) ==
    IF html = "" THEN FALSE
    ELSE \/ HasBodyElement(html) /\ TextLength(html) < 100
         \/ HasSpaIndicator(html) /\ HasBodyElement(html) /\ TextLength(html) < 200
         \/ NoscriptAsksJavascript(html)

\* the pages the HTTP crawl meets: one that looks script-rendered, one that
\* does not
LightBodies == {"short", "text"}

\* The loop of _extract_and_add_links (lines 329-366) over the anchors of a
\* page, threading the visited set and the children created so far.
\* acc = [visited, kids]
RECURSIVE ExtractAndAddLoop(_, _, _, _)
ExtractAndAddLoop(hrefs, acc, parent, lt) ==
    IF hrefs = <<>> THEN acc
    ELSE LET href == Head(hrefs)
             normalized == NormalizeUrl(href, FALSE)
             url_host == Netloc(normalized)
         IN  IF Cardinality(acc.visited) >= lt.cfg.max_pages
             THEN acc
             ELSE IF href = EmptyUrl
             THEN ExtractAndAddLoop(Tail(hrefs), acc, parent, lt)
             ELSE IF normalized \in acc.visited
             THEN ExtractAndAddLoop(Tail(hrefs), acc, parent, lt)
             ELSE IF lt.cfg.same_host_only /\ url_host # lt.start_host
             THEN ExtractAndAddLoop(Tail(hrefs), acc, parent, lt)
             ELSE IF ~lt.cfg.include_external
                     /\ ~IsInternalUrl(normalized, GetBaseDomain(parent.url))
             THEN ExtractAndAddLoop(Tail(hrefs), acc, parent, lt)
             ELSE ExtractAndAddLoop(Tail(hrefs),
                     [acc EXCEPT !.visited = @ \cup {normalized},
                                 !.kids = Append(@,
                                     LinkNode(normalized, parent.depth + 1,
                                              parent.url, parent.idx,
                                              url_host = lt.start_host))],
                     parent, lt)

\* _http_crawl lines 171-187: the root, the visited set and the first wave
HttpCrawlStart(lt) ==
    [lt EXCEPT !.phase = "loop",
               !.nodes = <<LinkNode(lt.start_url, 0, EmptyUrl, NoParent, TRUE)>>,
               !.visited = {NormalizeUrl(lt.start_url, FALSE)},
               !.wave = <<1>>,
               !.current_depth = 0,
               !.pages_crawled = 0]

\* map_links lines 88-97: the call starts; without use_sitemap it goes on
\* into _http_crawl
LightMapLinks(url) ==
    /\ light.phase = "new"
    /\ LET lt == [light EXCEPT !.start_url = url, !.start_host = Netloc(url),
                               !.pages_crawled = 0, !.js = {}]
       IN  light' = IF light.cfg.use_sitemap
                    THEN [lt EXCEPT !.phase = "sitemap"]
                    ELSE HttpCrawlStart(lt)
    /\ UNCHANGED notLight

\* map_links lines 97-103: get_urls returned; a non-empty list becomes the
\* tree that is returned, anything else leads into _http_crawl
SitemapReturns(sitemap_urls) ==
    /\ light.phase = "sitemap"
    /\ sitemap_urls \in SitemapGetUrls(light.start_url, light.cfg)
    /\ IF sitemap_urls # None /\ sitemap_urls[1] # <<>>
       THEN LET tree == UrlsToLinkTree(sitemap_urls[1], light.start_url, light.cfg)
            IN  light' = [light EXCEPT !.phase = "done", !.sitemap = TRUE,
                                       !.nodes = tree,
                                       !.pages_crawled = Len(tree)]
       ELSE light' = HttpCrawlStart(light)
    /\ UNCHANGED notLight

\* _http_crawl lines 189-204: one _fetch_and_extract_links per node of the wave
LightWaveBegin ==
    /\ light.phase = "loop"
    /\ light.current_depth <= light.cfg.max_depth
    /\ light.wave # <<>>
    /\ light.pages_crawled < light.cfg.max_pages
    /\ light' = [light EXCEPT
                    !.phase = "wave",
                    !.nodes = [i \in 1..Len(light.nodes) |->
                                  IF i \in Range(light.wave)
                                  THEN [light.nodes[i] EXCEPT !.st = "queued"]
                                  ELSE light.nodes[i]]]
    /\ UNCHANGED notLight

LightFetching == {i \in 1..Len(light.nodes) : light.nodes[i].st = "fetching"}

\* _fetch_and_extract_links lines 232-252: take the semaphore, test the
\* budget, send the GET
LightAcquire(n) ==
    /\ light.phase = "wave"
    /\ light.nodes[n].st = "queued"
    /\ Cardinality(LightFetching) < light.cfg.max_concurrent
    /\ light' = [light EXCEPT
                    !.nodes[n].st = IF light.pages_crawled >= light.cfg.max_pages
                                    THEN "skipped" ELSE "fetching"]
    /\ UNCHANGED notLight

\* lines 255-269: a status other than 200, a timeout or another exception
LightFetchFailed(n) ==
    /\ light.phase = "wave"
    /\ light.nodes[n].st = "fetching"
    /\ light' = [light EXCEPT !.nodes[n].st = "failed",
                              !.pages_crawled = @ + 1]
    /\ UNCHANGED notLight

\* lines 260-305: a 200 answer with body html and the anchors hrefs
LightFetchOk(n, html, hrefs) ==
    /\ light.phase = "wave"
    /\ light.nodes[n].st = "fetching"
    /\ LET crawled == light.pages_crawled + 1
           js == IF NeedsJavascript(html) THEN light.js \cup {light.nodes[n].url}
                 ELSE light.js
           parent == [url |-> light.nodes[n].url, depth |-> light.current_depth,
                      idx |-> n]
           d == ExtractAndAddLoop(hrefs, [visited |-> light.visited, kids |-> <<>>],
                                  parent, light)
           first == Len(light.nodes)
       IN  IF light.current_depth < light.cfg.max_depth /\ crawled < light.cfg.max_pages
           THEN light' = [light EXCEPT
                            !.pages_crawled = crawled,
                            !.js = js,
                            !.visited = d.visited,
                            !.nodes = [light.nodes EXCEPT
                                          ![n].st = "ok",
                                          ![n].children =
                                              [k \in 1..Len(d.kids) |-> first + k]]
                                      \o d.kids]
           ELSE light' = [light EXCEPT !.pages_crawled = crawled, !.js = js,
                                       !.nodes[n].st = "ok"]
    /\ UNCHANGED notLight

RECURSIVE LightChildrenOf(_)
LightChildrenOf(w) ==
    IF w = <<>> THEN <<>>
    ELSE light.nodes[Head(w)].children \o LightChildrenOf(Tail(w))

\* gather returned (line 204); lines 206-211
LightWaveEnd ==
    /\ light.phase = "wave"
    /\ \A i \in Range(light.wave) : light.nodes[i].st \notin {"queued", "fetching"}
    /\ light' = [light EXCEPT !.wave = LightChildrenOf(light.wave),
                              !.current_depth = @ + 1,
                              !.phase = "loop"]
    /\ UNCHANGED notLight

\* list(self._js_required_urls)[:10], line 441
BrowserFallbackLimit == 10

\* _http_crawl lines 189-191 and 213, map_links lines 103-117: the loop ends;
\* with pages marked as script-rendered _browser_fallback starts
LightLoopExit ==
    /\ light.phase = "loop"
    /\ \/ light.current_depth > light.cfg.max_depth
       \/ light.wave = <<>>
       \/ light.pages_crawled >= light.cfg.max_pages
    /\ \E todo \in SUBSET light.js :
          /\ Cardinality(todo) = Min2(Cardinality(light.js), BrowserFallbackLimit)
          /\ light' = [light EXCEPT !.phase = IF todo = {} THEN "done" ELSE "fallback",
                                    !.todo = todo]
    /\ UNCHANGED notLight

\* _find_node, lines 469-487, asked whether the tree holds a node of that url
FindNode(tree, url) == {i \in 1..Len(tree) : tree[i].url = url}

\* _browser_fallback lines 452-461: one child per internal link whose url no
\* node has yet
RECURSIVE FallbackLoop(_, _, _, _)
FallbackLoop(links, tree, n, url) ==
    IF links = <<>> THEN tree
    ELSE LET link_url == Head(links)
         IN  IF link_url = EmptyUrl \/ FindNode(tree, link_url) # {}
             THEN FallbackLoop(Tail(links), tree, n, url)
             ELSE FallbackLoop(Tail(links),
                     Append([tree EXCEPT ![n].children = Append(@, Len(tree) + 1)],
                            [LinkNode(link_url, tree[n].depth + 1, url, n, TRUE)
                                EXCEPT !.st = "added"]),
                     n, url)

\* _browser_fallback lines 441-464: crawler.arun(url) for one of the marked
\* urls; a successful result with links adds children to the node of the url
BrowserFallbackStep(url, ok, hrefs) ==
    /\ light.phase = "fallback"
    /\ url \in light.todo
    /\ LET found == FindNode(light.nodes, url)
           n == CHOOSE i \in found : \A j \in found : i <= j
           links == ExtractLinks(hrefs, url, "internal")
       IN  light' = [light EXCEPT
                        !.todo = @ \ {url},
                        !.nodes = IF ok /\ found # {}
                                  THEN FallbackLoop(links, light.nodes, n, url)
                                  ELSE @]
    /\ UNCHANGED notLight

\* the loop of line 441 is over: map_links returns the tree (line 117)
BrowserFallbackReturn ==
    /\ light.phase = "fallback"
    /\ light.todo = {}
    /\ light' = [light EXCEPT !.phase = "done"]
    /\ UNCHANGED notLight

NextLight ==
    \/ \E url \in Seeds : LightMapLinks(url)
    \/ \E sitemap_urls \in SitemapGetUrls(light.start_url, light.cfg) :
          SitemapReturns(sitemap_urls)
    \/ LightWaveBegin
    \/ \E n \in 1..Len(light.nodes) : LightAcquire(n)
    \/ \E n \in 1..Len(light.nodes) : LightFetchFailed(n)
    \/ \E n \in 1..Len(light.nodes) : \E html \in LightBodies : \E hrefs \in PageHrefs :
          LightFetchOk(n, html, hrefs)
    \/ LightWaveEnd
    \/ LightLoopExit
    \/ \E url \in light.todo : \E ok \in BOOLEAN : \E hrefs \in PageHrefs :
          BrowserFallbackStep(url, ok, hrefs)
    \/ BrowserFallbackReturn

(***************************************************************************)
(* Claims about the lightweight mapper (SpecLight).                        *)
(***************************************************************************)
\* C21: with same_host_only set, every node of the tree map_links returns
\* other than the root has the full host of the seed, whatever
\* include_external is; a link to another host, a subdomain of the seed's
\* base domain included, never becomes a node.
SameHostAuthority ==
    (light.phase = "done" /\ light.cfg.same_host_only)
    => \A i \in 2..Len(light.nodes) :
          GetFullHost(light.nodes[i].url) = GetFullHost(light.start_url)

\* C22: a tree returned through the sitemap shortcut has no node deeper than
\* max_depth (one node when max_depth is 0) and at most max_pages nodes.
SitemapKeepsBounds ==
    (light.phase = "done" /\ light.sitemap)
    => /\ \A i \in 1..Len(light.nodes) : light.nodes[i].depth <= light.cfg.max_depth
       /\ Len(light.nodes) <= light.cfg.max_pages
       /\ light.cfg.max_depth = 0 => Len(light.nodes) = 1


(***************************************************************************)
(* BrowserManager (browser/manager.py) under the browser tier of arun      *)
(* (core/crawler.py lines 139-141): new_page, _crawl_page, page.close.     *)
(***************************************************************************)
BrowserTasks == 1..MaxBrowserTasks

NoContext == 0

IdleBrowserTask == [at |-> "idle", context |-> NoContext, page |-> 0, how |-> ""]

\* __init__ (lines 22-25), and init (lines 27-48) when launched
BrowserNew(launched) ==
    /\ bm = [browser |-> launched, context |-> NoContext]
    /\ contexts = {}
    /\ pages = <<>>
    /\ btask = [t \in BrowserTasks |-> IdleBrowserTask]
    /\ bruns = 0

\* a context id the browser has not handed out
FreshContext ==
    1 + Cardinality(contexts \cup {pages[i].context : i \in 1..Len(pages)})

\* arun line 139 into new_page lines 119-122: without a context the task
\* goes into create_context and suspends in browser.new_context (line 99);
\* with one it suspends in context.new_page
NewPage(t) ==
    /\ bm.browser
    /\ btask[t].at = "idle"
    /\ bruns < MaxBrowserRuns
    /\ bruns' = bruns + 1
    /\ btask' = [btask EXCEPT ![t] =
                    IF bm.context = NoContext
                    THEN [IdleBrowserTask EXCEPT !.at = "new_context"]
                    ELSE [IdleBrowserTask EXCEPT !.at = "new_page",
                                                 !.context = bm.context]]
    /\ UNCHANGED <<bm, contexts, pages>>
    /\ UNCHANGED notBrowser

\* create_context lines 99-111 and new_page line 122: new_context returned a
\* new context, self._context is set to it, and the page is asked of
\* self._context
CreateContext(t) ==
    /\ btask[t].at = "new_context"
    /\ LET context == FreshContext
       IN  /\ contexts' = contexts \cup {context}
           /\ bm' = [bm EXCEPT !.context = context]
           /\ btask' = [btask EXCEPT ![t].at = "new_page", ![t].context = context]
    /\ UNCHANGED <<pages, bruns>>
    /\ UNCHANGED notBrowser

\* new_page lines 122-128 and arun line 140: the page exists, in the context
\* that was self._context when it was asked for, and _crawl_page starts
PageCreated(t) ==
    /\ btask[t].at = "new_page"
    /\ pages' = Append(pages, [context |-> btask[t].context, open |-> TRUE])
    /\ btask' = [btask EXCEPT ![t].at = "crawl", ![t].page = Len(pages) + 1]
    /\ UNCHANGED <<bm, contexts, bruns>>
    /\ UNCHANGED notBrowser

\* how _crawl_page can end by returning (lines 444-501): with the page's
\* result, with the result of _nodriver_fallback after a challenge (line 454),
\* with a CloudflareBlocked failure (lines 456-462)
CrawlPageReturns == {"result", "nodriver", "CloudflareBlocked"}

\* _crawl_page returned; arun line 141 closes the page and arun returns
\* (lines 143-160)
CrawlPageReturn(t, how) ==
    /\ btask[t].at = "crawl"
    /\ pages' = [pages EXCEPT ![btask[t].page].open = FALSE]
    /\ btask' = [btask EXCEPT ![t].at = "idle", ![t].how = how]
    /\ UNCHANGED <<bm, contexts, bruns>>
    /\ UNCHANGED notBrowser

\* where _crawl_page lets an exception out: page.evaluate of _execute_js
\* (line 466) and of _scroll_full_page (line 470), page.content (line 477)
CrawlPageRaises == {"js_code", "scan_full_page", "content"}

\* _crawl_page raised: arun's except clause (lines 161-169) returns a failure
\* result; line 141 is not reached
CrawlPageRaise(t, how) ==
    /\ btask[t].at = "crawl"
    /\ btask' = [btask EXCEPT ![t].at = "idle", ![t].how = how]
    /\ UNCHANGED <<bm, contexts, pages, bruns>>
    /\ UNCHANGED notBrowser

\* crawler.close (crawler.py lines 199-202) into BrowserManager.close (lines
\* 158-173), called when no arun is in progress: the context of self._context
\* is closed, then the browser with every context and page left in it
BrowserClose ==
    /\ bm.browser
    /\ \A t \in BrowserTasks : btask[t].at = "idle"
    /\ bm' = [browser |-> FALSE, context |-> NoContext]
    /\ contexts' = {}
    /\ pages' = [i \in 1..Len(pages) |-> [pages[i] EXCEPT !.open = FALSE]]
    /\ btask' = [t \in BrowserTasks |-> IdleBrowserTask]
    /\ UNCHANGED bruns
    /\ UNCHANGED notBrowser

NextBrowser ==
    \/ \E t \in BrowserTasks : NewPage(t)
    \/ \E t \in BrowserTasks : CreateContext(t)
    \/ \E t \in BrowserTasks : PageCreated(t)
    \/ \E t \in BrowserTasks : \E how \in CrawlPageReturns : CrawlPageReturn(t, how)
    \/ \E t \in BrowserTasks : \E how \in CrawlPageRaises : CrawlPageRaise(t, how)
    \/ BrowserClose

(***************************************************************************)
(* Claims about the browser (SpecBrowser).                                 *)
(***************************************************************************)
\* C23: between start and close at most one browser context exists and every
\* page of the run was created in that one context, also when several fetches
\* ask for their first page before any context exists.
OneContext ==
    /\ Cardinality(contexts) <= 1
    /\ bm.browser => \A i, j \in 1..Len(pages) : pages[i].context = pages[j].context

\* C24: when a fetch returns, the page created for it is closed: after a
\* normal completion, after a challenge that went to the undetected fallback,
\* after a CloudflareBlocked failure and after an exception of the rendered
\* fetch.
PageClosedOnReturn ==
    \A t \in BrowserTasks :
        (btask[t].at = "idle" /\ btask[t].page # 0) => ~pages[btask[t].page].open


(***************************************************************************)
(* utils/url.py on URL texts (SpecUrl).  A string is the sequence of its   *)
(* pieces: the characters ":", "/", "?", "#", "&", "=", "." and words of   *)
(* letters and digits, none of which quote_plus or unquote changes.        *)
(***************************************************************************)
\* str.find, counted from 1; 0 when the piece is absent
Find(s, c) ==
    IF \E i \in 1..Len(s) : s[i] = c
    THEN CHOOSE i \in 1..Len(s) : s[i] = c /\ \A j \in 1..(i - 1) : s[j] # c
    ELSE 0

From(s, i) == SubSeq(s, i, Len(s))

StartsWith(s, p) == Len(s) >= Len(p) /\ SubSeq(s, 1, Len(p)) = p

EndsWith(s, p) == Len(s) >= Len(p) /\ From(s, Len(s) - Len(p) + 1) = p

\* str.lower
str_lower(s) ==
    [i \in 1..Len(s) |->
        CASE s[i] = "HTTPS" -> "https"
          [] s[i] = "A" -> "a"
          [] s[i] = "Test" -> "test"
          [] OTHER -> s[i]]

\* str.split(sep)
RECURSIVE Split(_, _)
Split(s, sep) ==
    LET i == Find(s, sep) IN
    IF i = 0 THEN <<s>> ELSE <<SubSeq(s, 1, i - 1)>> \o Split(From(s, i + 1), sep)

\* str.replace(old, "")
RECURSIVE Remove(_, _)
Remove(s, old) ==
    IF Len(s) < Len(old) THEN s
    ELSE IF StartsWith(s, old) THEN Remove(From(s, Len(old) + 1), old)
    ELSE <<s[1]>> \o Remove(Tail(s), old)

\* the pieces urllib accepts in a scheme, and those that begin with a letter
SchemeChars ==
    {"https", "HTTPS", "a", "A", "b", "p", "f", "test", "Test", "www", "co", "uk",
     "1", "2", "."}

Alpha == SchemeChars \ {"1", "2", "."}

\* the members of urllib's uses_netloc that the texts can carry
uses_netloc == {<<"http">>, <<"https">>}

\* url.split(c, 1), with "" for the part a text without c does not have
SplitAt(s, c) ==
    IF Find(s, c) > 0 THEN <<SubSeq(s, 1, Find(s, c) - 1), From(s, Find(s, c) + 1)>>
    ELSE <<s, <<>>>>

\* urlsplit: the text up to the first ":" is the scheme when it begins with
\* a letter and holds scheme characters only; it is lowercased
SplitScheme(url, i) ==
    IF i > 1 /\ url[1] \in Alpha /\ \A j \in 1..(i - 1) : url[j] \in SchemeChars
    THEN <<str_lower(SubSeq(url, 1, i - 1)), From(url, i + 1)>>
    ELSE <<<<>>, url>>

\* _splitnetloc: the netloc ends before the first "/", "?" or "#"
NetlocEnd(s) ==
    IF \E j \in 1..Len(s) : s[j] \in {"/", "?", "#"}
    THEN CHOOSE j \in 1..Len(s) :
             /\ s[j] \in {"/", "?", "#"}
             /\ \A k \in 1..(j - 1) : s[k] \notin {"/", "?", "#"}
    ELSE Len(s) + 1

\* urlsplit: a netloc follows "//"
SplitNetloc(rest) ==
    IF StartsWith(rest, <<"/", "/">>)
    THEN <<SubSeq(From(rest, 3), 1, NetlocEnd(From(rest, 3)) - 1),
           From(From(rest, 3), NetlocEnd(From(rest, 3)))>>
    ELSE <<<<>>, rest>>

AfterQuery(scheme, netloc, path_query, fragment) ==
    [scheme |-> scheme, netloc |-> netloc, path |-> path_query[1],
     query |-> path_query[2], fragment |-> fragment]

AfterFragment(scheme, netloc, url_fragment) ==
    AfterQuery(scheme, netloc, SplitAt(url_fragment[1], "?"), url_fragment[2])

AfterNetloc(scheme, netloc_url) ==
    AfterFragment(scheme, netloc_url[1], SplitAt(netloc_url[2], "#"))

AfterScheme(scheme_rest) == AfterNetloc(scheme_rest[1], SplitNetloc(scheme_rest[2]))

\* urllib.parse.urlparse: the scheme, then the netloc, then the fragment,
\* then the query; what is left is the path
urlparse(url) == AfterScheme(SplitScheme(url, Find(url, ":")))

\* urllib.parse.urlunparse
urlunparse(parsed) ==
    LET with_netloc ==
            IF \/ parsed.netloc # <<>>
               \/ /\ parsed.scheme \in uses_netloc
                  /\ ~StartsWith(parsed.path, <<"/", "/">>)
            THEN <<"/", "/">> \o parsed.netloc
                 \o (IF parsed.path # <<>> /\ parsed.path[1] # "/"
                     THEN <<"/">> ELSE <<>>)
                 \o parsed.path
            ELSE parsed.path
        with_scheme ==
            IF parsed.scheme # <<>> THEN parsed.scheme \o <<":">> \o with_netloc
            ELSE with_netloc
        with_query ==
            IF parsed.query # <<>> THEN with_scheme \o <<"?">> \o parsed.query
            ELSE with_scheme
    IN IF parsed.fragment # <<>> THEN with_query \o <<"#">> \o parsed.fragment
       ELSE with_query

\* urllib.parse.parse_qsl(query, keep_blank_values=True): the (name, value)
\* pairs of the fields between "&", a field without "=" having the value ""
RECURSIVE PairsOf(_)
PairsOf(fields) ==
    IF fields = <<>> THEN <<>>
    ELSE LET name_value == Head(fields)
             e == Find(name_value, "=")
             pair == IF e = 0 THEN <<name_value, <<>>>>
                     ELSE <<SubSeq(name_value, 1, e - 1), From(name_value, e + 1)>>
         IN (IF name_value = <<>> THEN <<>> ELSE <<pair>>) \o PairsOf(Tail(fields))

\* the values of one key, in the order of the query
RECURSIVE ValuesOf(_, _)
ValuesOf(pairs, k) ==
    IF pairs = <<>> THEN <<>>
    ELSE (IF Head(pairs)[1] = k THEN <<Head(pairs)[2]>> ELSE <<>>)
         \o ValuesOf(Tail(pairs), k)

\* urllib.parse.parse_qs(query, keep_blank_values=True): key -> its values
DictOf(pairs) ==
    [k \in {pairs[i][1] : i \in 1..Len(pairs)} |-> ValuesOf(pairs, k)]

parse_qs(query) == DictOf(PairsOf(Split(query, "&")))

\* the order of str on the one-character words of the query keys
Ord(c) == CASE c = "1" -> 1 [] c = "2" -> 2 [] c = "a" -> 3 [] c = "b" -> 4
            [] OTHER -> 5

RECURSIVE StrLess(_, _)
StrLess(s, t) ==
    IF t = <<>> THEN FALSE
    ELSE IF s = <<>> THEN TRUE
    ELSE IF s[1] # t[1] THEN Ord(s[1]) < Ord(t[1])
    ELSE StrLess(Tail(s), Tail(t))

\* urlencode(sorted(flat_params.items()), doseq=True): the keys in the order
\* of str, each with its values in their order, joined with "&"
RECURSIVE Fields(_, _)
Fields(k, vs) ==
    IF vs = <<>> THEN <<>>
    ELSE k \o <<"=">> \o vs[1]
         \o (IF Len(vs) > 1 THEN <<"&">> \o Fields(k, Tail(vs)) ELSE <<>>)

RECURSIVE UrlEncode(_, _)
UrlEncode(params, keys) ==
    IF keys = {} THEN <<>>
    ELSE LET k == CHOOSE x \in keys : \A y \in keys \ {x} : StrLess(x, y)
             more == UrlEncode(params, keys \ {k})
         IN Fields(k, params[k]) \o (IF more # <<>> THEN <<"&">> \o more ELSE <<>>)

\* lines 32-34: a text without a scheme is parsed again behind "https://"
EnsureScheme(url, parsed) ==
    IF parsed.scheme = <<>> THEN urlparse(<<"https", ":", "/", "/">> \o url) ELSE parsed

EncodeParams(params) == UrlEncode(params, DOMAIN params)

\* lines 40-45: the query parameters, sorted
SortedQuery(query) == IF query # <<>> THEN EncodeParams(parse_qs(query)) ELSE query

\* lines 37-53: no fragment, sorted query, lowercased scheme and netloc
Normalized(parsed) ==
    urlunparse([scheme |-> str_lower(parsed.scheme),
                netloc |-> str_lower(parsed.netloc),
                path |-> parsed.path,
                query |-> SortedQuery(parsed.query),
                fragment |-> <<>>])

\* normalize_url(url), lines 22-53, with no base_url
normalize_url(url) ==
    IF url = <<>> THEN <<>> ELSE Normalized(EnsureScheme(url, urlparse(url)))

\* special_suffixes, line 77
special_suffixes ==
    {<<".", "co", ".", "uk">>, <<".", "co", ".", "jp">>, <<".", "com", ".", "au">>,
     <<".", "co", ".", "nz">>}

\* lines 70-71: remove www
WithoutWww(domain) ==
    IF StartsWith(domain, <<"www", ".">>) THEN From(domain, 3) ELSE domain

\* lines 72-73: remove the port
WithoutPort(domain) ==
    IF Find(domain, ":") > 0 THEN Split(domain, ":")[1] ELSE domain

\* lines 79-81: the last label before a special suffix, and the suffix
SpecialDomain(parts, suffix) == parts[Len(parts)] \o suffix

\* lines 84-88: the last two labels
RegularDomain(parts, domain) ==
    IF Len(parts) >= 2 THEN parts[Len(parts) - 1] \o <<".">> \o parts[Len(parts)]
    ELSE domain

\* lines 76-88: at most one of the special suffixes ends a domain
BaseOf(domain, special) ==
    IF special # {}
    THEN SpecialDomain(Split(Remove(domain, CHOOSE x \in special : TRUE), "."),
                       CHOOSE x \in special : TRUE)
    ELSE RegularDomain(Split(domain, "."), domain)

SpecialOf(domain) == {suffix \in special_suffixes : EndsWith(domain, suffix)}

DomainOf(netloc) == WithoutPort(WithoutWww(str_lower(netloc)))

\* get_base_domain(url), lines 66-88
get_base_domain(url) ==
    BaseOf(DomainOf(urlparse(url).netloc), SpecialOf(DomainOf(urlparse(url).netloc)))

\* is_internal_url(url, base_domain), lines 101-102
is_internal_url(url, base_domain) ==
    LET url_domain == get_base_domain(url) IN
    url_domain = base_domain \/ EndsWith(url_domain, <<".">> \o base_domain)

\* the url texts of the calls: with or without a scheme, with or without the
\* "//" before the host, hosts in either case, with "www." and with a
\* special suffix, queries out of order, with a repeated key and with blank
\* values, with or without a fragment; and the empty string
UrlSchemes == {<<>>, <<"https", ":">>, <<"HTTPS", ":">>}

UrlSlashes == {<<>>, <<"/", "/">>}

UrlHosts ==
    {<<"a", ".", "test">>, <<"A", ".", "Test">>, <<"www", ".", "a", ".", "test">>,
     <<"a", ".", "co", ".", "uk">>}

UrlPaths == {<<>>, <<"/", "p">>}

UrlQueries ==
    {<<>>, <<"?", "b", "=", "1", "&", "a", "=", "2">>,
     <<"?", "a", "=", "2", "&", "a", "=", "1">>, <<"?", "b", "=", "&", "a">>}

UrlFragments == {<<>>, <<"#", "f">>}

UrlTexts ==
    {<<>>} \cup
    {s \o sl \o h \o p \o q \o f :
        s \in UrlSchemes, sl \in UrlSlashes, h \in UrlHosts, p \in UrlPaths,
        q \in UrlQueries, f \in UrlFragments}

BaseDomains == {<<"a", ".", "test">>, <<"a", ".", "co", ".", "uk">>, <<"test">>}

NoUrlCall ==
    [url |-> <<>>, base_domain |-> <<>>, normalized |-> <<>>, raw |-> None,
     norm |-> None]

\* normalize_url applied to the url, then to its own result
CallNormalizeUrl ==
    /\ Len(ucall.normalized) < MaxNormalizations
    /\ ucall' = [ucall EXCEPT
                    !.normalized =
                        Append(@, normalize_url(IF @ = <<>> THEN ucall.url
                                                ELSE @[Len(@)]))]
    /\ UNCHANGED differ
    /\ UNCHANGED notUtil

\* is_internal_url(url, base_domain)
CallIsInternalUrl ==
    /\ ucall.raw = None
    /\ ucall' = [ucall EXCEPT !.raw = Some(is_internal_url(ucall.url, ucall.base_domain))]
    /\ UNCHANGED differ
    /\ UNCHANGED notUtil

\* is_internal_url(normalize_url(url), base_domain)
CallIsInternalNormalized ==
    /\ ucall.normalized # <<>>
    /\ ucall.norm = None
    /\ ucall' = [ucall EXCEPT
                    !.norm = Some(is_internal_url(ucall.normalized[1], ucall.base_domain))]
    /\ UNCHANGED differ
    /\ UNCHANGED notUtil

NextUrl ==
    \/ CallNormalizeUrl
    \/ CallIsInternalUrl
    \/ CallIsInternalNormalized

\* C28: normalize_url applied to its own result returns that result.
NormalizeIdempotent ==
    Len(ucall.normalized) >= 2 => ucall.normalized[2] = ucall.normalized[1]

\* C29: is_internal_url gives a url and its normal form the same answer, for
\* every base domain.
InternalStable ==
    (ucall.raw # None /\ ucall.norm # None) => ucall.raw = ucall.norm

(***************************************************************************)
(* cache/diffing.py (SpecDiff).  A content is the sequence of its pieces:  *)
(* letters, the space and the newline.  A float is the fraction that       *)
(* difflib divides out; it is 1.0 exactly when num = den.                  *)
(***************************************************************************)
DiffPieces == {"a", "b", " ", "\n"}

\* str.strip()
RECURSIVE LStrip(_)
LStrip(s) == IF s # <<>> /\ s[1] \in {" ", "\n"} THEN LStrip(Tail(s)) ELSE s

RECURSIVE RStrip(_)
RStrip(s) ==
    IF s # <<>> /\ s[Len(s)] \in {" ", "\n"} THEN RStrip(SubSeq(s, 1, Len(s) - 1)) ELSE s

strip(s) == RStrip(LStrip(s))

\* SequenceMatcher.find_longest_match on a[alo:ahi] and b[blo:bhi], indices
\* from 0 as in difflib: the longest matching block, of those the one that
\* starts earliest in a, of those the one that starts earliest in b.  The
\* sequences of the model are below the 200 elements at which autojunk
\* begins to set popular elements aside.
find_longest_match(a, b, alo, ahi, blo, bhi) ==
    LET blocks ==
            {m \in (alo..(ahi - 1)) \X (blo..(bhi - 1)) \X (1..(ahi - alo)) :
                /\ m[1] + m[3] <= ahi
                /\ m[2] + m[3] <= bhi
                /\ \A d \in 0..(m[3] - 1) : a[m[1] + d + 1] = b[m[2] + d + 1]}
    IN IF blocks = {} THEN <<alo, blo, 0>>
       ELSE CHOOSE m \in blocks :
               \A o \in blocks :
                   \/ m[3] > o[3]
                   \/ m[3] = o[3] /\ m[1] < o[1]
                   \/ m[3] = o[3] /\ m[1] = o[1] /\ m[2] <= o[2]

\* the sum of the sizes of SequenceMatcher.get_matching_blocks: the longest
\* match, then the matches to its left and to its right
RECURSIVE MatchingSize(_, _, _, _, _, _)
MatchingSize(a, b, alo, ahi, blo, bhi) ==
    LET m == find_longest_match(a, b, alo, ahi, blo, bhi)
        i == m[1]
        j == m[2]
        k == m[3]
    IN IF k = 0 THEN 0
       ELSE k + (IF alo < i /\ blo < j THEN MatchingSize(a, b, alo, i, blo, j) ELSE 0)
              + (IF i + k < ahi /\ j + k < bhi
                 THEN MatchingSize(a, b, i + k, ahi, j + k, bhi) ELSE 0)

\* a ratio that counts each match once
ratio_of_matches(matches, length) == [num |-> matches, den |-> length]

\* difflib._calculate_ratio
calculate_ratio(matches, length) ==
    IF length # 0 THEN [num |-> 2 * matches, den |-> length] ELSE [num |-> 1, den |-> 1]

\* SequenceMatcher(None, a, b).ratio()
ratio(a, b) ==
    calculate_ratio(MatchingSize(a, b, 0, Len(a), 0, Len(b)), Len(a) + Len(b))

\* the elements of s that are no element of t, in the order of s
NotIn(s, t) == SelectSeq(s, LAMBDA line : \A i \in 1..Len(t) : t[i] # line)

\* detect_changes(current_content, previous_content), lines 62-87
detect_changes(ignore_whitespace, current_content, previous_content) ==
    LET split_current == Split(current_content, "\n")
        split_previous == Split(previous_content, "\n")
        current_lines ==
            IF ignore_whitespace
            THEN [i \in 1..Len(split_current) |-> strip(split_current[i])]
            ELSE split_current
        previous_lines ==
            IF ignore_whitespace
            THEN [i \in 1..Len(split_previous) |-> strip(split_previous[i])]
            ELSE split_previous
    IN [added_lines |-> NotIn(current_lines, previous_lines),
        removed_lines |-> NotIn(previous_lines, current_lines),
        modified_lines |-> <<>>,
        similarity_ratio |-> ratio(previous_lines, current_lines)]

\* the contents of up to MaxContentLen pieces
DiffContents == UNION {[1..n -> DiffPieces] : n \in 0..MaxContentLen}

\* a detector with its default arguments and no call
NoDiff == [ignore_whitespace |-> TRUE, current |-> <<>>, previous |-> <<>>, diff |-> None]

DetectChanges ==
    /\ differ.diff = None
    /\ differ' = [differ EXCEPT
                     !.diff = Some(detect_changes(differ.ignore_whitespace,
                                                  differ.current, differ.previous))]
    /\ UNCHANGED ucall
    /\ UNCHANGED notUtil

NextDiff == DetectChanges

\* C30: detect_changes of a content against itself returns a similarity of
\* exactly 1.0 and no added and no removed lines.
DiffIdentity ==
    (differ.diff # None /\ differ.current = differ.previous)
    => /\ differ.diff[1].similarity_ratio.num = differ.diff[1].similarity_ratio.den
       /\ differ.diff[1].added_lines = <<>>
       /\ differ.diff[1].removed_lines = <<>>

\* C30 witness: the diff of a content against itself has been computed, and
\* the content has a repeated line and a line of whitespace only.
DiffIdentityWitness ==
    /\ differ.diff # None
    /\ differ.current = differ.previous
    /\ LET lines == Split(differ.current, "\n") IN
       /\ \E i, j \in 1..Len(lines) : i < j /\ lines[i] = lines[j]
       /\ \E i \in 1..Len(lines) : lines[i] # <<>> /\ strip(lines[i]) = <<>>

(***************************************************************************)
(* Specifications: one per subsystem; the other subsystems stay as         *)
(* constructed.                                                            *)
(***************************************************************************)
MapperIdle ==
    /\ mcfg = [max_depth |-> 2, max_pages |-> 100, max_concurrent |-> 5,
               include_external |-> FALSE, same_host_only |-> FALSE,
               preserve_url_fragment |-> FALSE]
    /\ start_url = Seed
    /\ mphase = "new"
    /\ nodes = <<>>
    /\ visited = {}
    /\ current_depth = 0
    /\ wave = <<>>
    /\ pages_crawled = 0
    /\ fetches = 0
    /\ skips = [sibling |-> FALSE, seed |-> FALSE]

\* LightweightLinkMapper() with its default arguments
LightIdle == LightNew(DefaultLightConfig)

\* BrowserManager(config) as the constructor leaves it
BrowserIdle == BrowserNew(FALSE)

\* no call of the url utilities or of the change detector
UtilIdle == ucall = NoUrlCall /\ differ = NoDiff

DiscoveryIdle == MapperIdle /\ LightIdle /\ BrowserIdle /\ UtilIdle

LimiterIdle == LimiterNew(DefaultLimiterConfig)

\* SemaphoreDispatcher() with its default arguments (line 41)
DefaultSemaphoreCount == 5

DispatchIdle ==
    DispatcherNew([class |-> "SemaphoreDispatcher", count |-> DefaultSemaphoreCount])

\* CacheStorage() on a new database file
CacheIdle == CacheNew(EmptyDict) /\ removal = NoRemoval

\* AsyncWebCrawler() with its default arguments
FetchIdle == CrawlerNew(None)

MapperInit ==
    /\ MapperStart /\ LightIdle /\ BrowserIdle /\ UtilIdle
    /\ LimiterIdle /\ DispatchIdle /\ CacheIdle /\ FetchIdle

SpecMapper == MapperInit /\ [][NextMapper]_vars

LightInit ==
    /\ MapperIdle /\ BrowserIdle /\ UtilIdle
    /\ LimiterIdle /\ DispatchIdle /\ CacheIdle /\ FetchIdle
    /\ \E cfg \in LightConfigs : LightNew(cfg)

SpecLight == LightInit /\ [][NextLight]_vars

\* a crawler after start(): the browser is launched, no context yet
BrowserInit ==
    /\ MapperIdle /\ LightIdle /\ UtilIdle
    /\ LimiterIdle /\ DispatchIdle /\ CacheIdle /\ FetchIdle
    /\ BrowserNew(TRUE)

SpecBrowser == BrowserInit /\ [][NextBrowser]_vars

LimiterInit == DiscoveryIdle /\ DispatchIdle /\ CacheIdle /\ FetchIdle /\ \E cfg \in LimiterConfigs : LimiterNew(cfg)

SpecLimiter == LimiterInit /\ [][NextLimiter]_vars

PacingInit ==
    DiscoveryIdle /\ DispatchIdle /\ CacheIdle /\ FetchIdle /\ LimiterNew(PacingConfig)

SpecPacing == PacingInit /\ [][NextPacing]_vars

\* the same limiter, told about several domains
SpecOrigins == PacingInit /\ [][NextOrigins]_vars

\* a dispatcher of any class; its rate limiter is RateLimiter()
DispatchInit ==
    DiscoveryIdle /\ LimiterIdle /\ CacheIdle /\ FetchIdle /\ \E cfg \in DispatcherConfigs : DispatcherNew(cfg)

SpecDispatch == DispatchInit /\ [][NextDispatch]_vars

SpecRetry == DispatchInit /\ [][NextRetry]_vars

CacheStart == DiscoveryIdle /\ LimiterIdle /\ DispatchIdle /\ FetchIdle /\ CacheIdle

SpecCache == CacheStart /\ [][NextCache]_vars

\* the tables of the database file the cache is opened on: empty, or one
\* record written at hour 0
RemovalTables ==
    {EmptyDict} \cup
    {[k \in {u} |-> CacheRow("md", None, ttl, 0)] : u \in CacheUrls, ttl \in Ttls}

RemovalInit ==
    /\ DiscoveryIdle /\ LimiterIdle /\ DispatchIdle /\ FetchIdle
    /\ \E rows \in RemovalTables : CacheNew(rows)
    /\ removal = NoRemoval

SpecRemoval == RemovalInit /\ [][NextRemoval]_vars

\* a cache on such a database file, before any cleanup
SweepInit ==
    /\ DiscoveryIdle /\ LimiterIdle /\ DispatchIdle /\ FetchIdle
    /\ \E rows \in RemovalTables : CacheNew(rows)
    /\ removal = NoSweep

SpecSweep == SweepInit /\ [][NextSweep]_vars

\* a url text and a base domain, before any call
UrlInit ==
    /\ MapperIdle /\ LightIdle /\ BrowserIdle
    /\ LimiterIdle /\ DispatchIdle /\ CacheIdle /\ FetchIdle
    /\ differ = NoDiff
    /\ \E url \in UrlTexts, base_domain \in BaseDomains :
          ucall = [NoUrlCall EXCEPT !.url = url, !.base_domain = base_domain]

SpecUrl == UrlInit /\ [][NextUrl]_vars

\* a detector that ignores whitespace or does not, a content, and as the
\* previous content the same content or one of at most one piece
DiffInit ==
    /\ MapperIdle /\ LightIdle /\ BrowserIdle
    /\ LimiterIdle /\ DispatchIdle /\ CacheIdle /\ FetchIdle
    /\ ucall = NoUrlCall
    /\ \E ignore_whitespace \in BOOLEAN, current \in DiffContents :
          \E previous \in {current} \cup {c \in DiffContents : Len(c) <= 1} :
              differ = [NoDiff EXCEPT !.ignore_whitespace = ignore_whitespace,
                                      !.current = current, !.previous = previous]

SpecDiff == DiffInit /\ [][NextDiff]_vars

\* an html text, before _needs_browser is called on it
NeedsInit ==
    /\ MapperIdle /\ LightIdle /\ BrowserIdle
    /\ LimiterIdle /\ DispatchIdle /\ CacheIdle /\ FetchIdle
    /\ differ = NoDiff
    /\ \E html \in HtmlTexts : ucall = NoNeedsCall(html)

SpecNeeds == NeedsInit /\ [][NextNeeds]_vars

\* the tables of a database file that earlier runs left behind: empty, or one
\* record written at hour 0
StoredTables ==
    {EmptyDict} \cup
    {[k \in {u} |-> CacheRow("md", None, ttl, 0)] : u \in FetchUrls \ {EmptyUrl}, ttl \in Ttls}

\* a crawler constructed with or without a crawler_config, on a database
\* file of earlier runs
FetchInit ==
    /\ DiscoveryIdle /\ LimiterIdle /\ DispatchIdle
    /\ \E rows \in StoredTables : CacheNew(rows)
    /\ removal = NoRemoval
    /\ \E crawler_config \in CtorConfigs : CrawlerNew(crawler_config)

SpecFetch == FetchInit /\ [][NextFetch]_vars

\* the crawler_config a crawler is constructed with when its calls go
\* through the tiers
TierConfigs ==
    [cache_mode : CacheModes, cache_ttl_hours : {MaxTtl}, http_first : BOOLEAN,
     nodriver : BOOLEAN]

TiersInit ==
    /\ DiscoveryIdle /\ LimiterIdle /\ DispatchIdle
    /\ \E rows \in StoredTables : CacheNew(rows)
    /\ removal = NoRemoval
    /\ \E crawler_config \in TierConfigs : CrawlerNew(Some(crawler_config))

SpecTiers == TiersInit /\ [][NextTiers]_vars

\* the same crawlers, whose calls go to the rendered tier
SpecNavigation == TiersInit /\ [][NextNavigation]_vars

\* a crawler constructed with a crawler_config of any cache mode, on a
\* database file of earlier runs
ManyInit ==
    /\ DiscoveryIdle /\ LimiterIdle /\ DispatchIdle
    /\ \E rows \in StoredTables : CacheNew(rows)
    /\ removal = NoRemoval
    /\ \E crawler_config \in CtorConfigs \ {None} : CrawlerNew(crawler_config)

SpecMany == ManyInit /\ [][NextMany]_vars

\* a crawler constructed with a crawler_config of mode cached, on a new
\* database file
KeysInit ==
    /\ DiscoveryIdle /\ LimiterIdle /\ DispatchIdle /\ CacheIdle
    /\ CrawlerNew(Some([DefaultCrawlerConfig EXCEPT !.cache_ttl_hours = MaxTtl]))

SpecKeys == KeysInit /\ [][NextKeys]_vars

====
